---- MODULE Spec2Model ----
(***************************************************************************)
(* A model of rest_meets_djongo's serializers: field-name resolution,      *)
(* field-tree construction and the create/update recursion of              *)
(* DjongoModelSerializer and EmbeddedModelSerializer                       *)
(* (src/rest_meets_djongo/serializers.py).                                 *)
(***************************************************************************)
EXTENDS Integers, Sequences, FiniteSets, TLC

VARIABLES
    ser,        \* save model: the root serializer class in use
    instance,   \* save model: the in-memory model instance (Null before a create)
    store,      \* save model: the object last written to the store (Null if none)
    last,       \* save model: what the last create/update was given and did
    chain,      \* field model: the models, chain[i] telling whether model i-1
                \*   embeds model i as an array
    klass,      \* field model: the serializer class whose fields are resolved
    names,      \* field model: what get_field_names returned or raised
    resolved,   \* field model: the field tree, or the error get_fields raised
    opts,       \* meta model: the _meta of the model inspected
    field_info, \* meta model: what get_field_info returned
    conv,       \* field model: a serializer field, a value and its conversions
    custom,     \* field model: the customization extracted for a nested field
    kwargs      \* field model: an embedded model field and the keywords built for it

vars == <<ser, instance, store, last, chain, klass, names, resolved, opts, field_info, conv, custom,
          kwargs>>

\* ------------------------------------------------------------------ bounds
\* Scalar attribute values are 1..MaxVal.
MaxVal == 2
\* Array payloads hold at most MaxLen elements.
MaxLen == 2
\* Models are embedded in one another at most MaxChain levels deep.
MaxChain == 3
\* Meta.fields and Meta.exclude list at most MaxNames names.
MaxNames == 2

\* ------------------------------------------------------------------ values
\* Python values: None, scalars, dicts, lists and model instances.
Null == [t |-> "null"]
IntV(i) == [t |-> "int", i |-> i]
MapV(m) == [t |-> "map", m |-> m]
ListV(s) == [t |-> "list", s |-> s]
ObjV(model, attrs) == [t |-> "obj", model |-> model, attrs |-> attrs]

EmptyMap == [k \in {} |-> Null]
Vals == {IntV(i) : i \in 1..MaxVal}

\* isinstance(v, (list, dict))
IsListOrDict(v) == v.t \in {"map", "list"}

\* d[key] = val on a dict
SetItem(m, key, val) == [k \in DOMAIN m \cup {key} |-> IF k = key THEN val ELSE m[k]]

\* Exceptions. wraps counts how often create() re-raised it as a new TypeError.
NoErr == [type |-> "none", msg |-> "", method |-> "", ser |-> "", wraps |-> 0]
Err(type, msg, method, s) ==
    [type |-> type, msg |-> msg, method |-> method, ser |-> s, wraps |-> 0]

\* Events of one create/update, in execution order.
Ev(e, s) == [e |-> e, ser |-> s]

\* ------------------------------------------------------------------ models
\* The model classes the serializers below target, each with its stored
\* fields. Django's Model.__init__ accepts exactly these keyword arguments.
ModelFields(m) ==
    CASE m = "DeepContainerModel" -> {"control_val", "deep_embed"}
      [] m = "ContainerModel" -> {"control_val", "embed_field"}
      [] m = "EmbedModel" -> {"int_field", "char_field"}
      [] m = "ArrayContainerModel" -> {"embed_list"}
      [] m = "ItemModel" -> {"int_field"}
      [] m = "RelModel" -> {"fk_field", "holder", "owner"}
      [] m = "HolderModel" -> {"int_field", "fk_field"}
      [] m = "FkModel" -> {"description"}
      [] m = "ObjIDModel" -> {"int_field", "char_field"}

\* The attributes that are foreign keys: Django's descriptor accepts only None
\* or a model instance for them and raises ValueError for anything else.
ModelRelations(m) ==
    CASE m = "RelModel" -> {"fk_field"}
      [] m = "HolderModel" -> {"fk_field"}
      [] OTHER -> {}
CanAssign(m, a, v) == a \in ModelRelations(m) => v.t \in {"null", "obj"}

\* control_val = CharField(default='CONTROL'); every other field starts empty.
ModelDefault(m, a) == IF a = "control_val" THEN IntV(0) ELSE Null

\* ------------------------------------------------------------- serializers
\* A serializer field: kind is "plain" (any non-serializer field), "serializer"
\* (one nested serializer of class child), "list" (a ListSerializer over child)
\* "embfield" (the terminal EmbeddedModelField over the model child) or
\* "arrfield" (the terminal ArrayModelField over the model child). source is
\* the list of attributes the dotted source string names.
Field(kind, child, source, ro) ==
    [kind |-> kind, child |-> child, source |-> source, read_only |-> ro]
Plain(name) == Field("plain", "", <<name>>, FALSE)
Nested(name, child) == Field("serializer", child, <<name>>, FALSE)
Many(name, child) == Field("list", child, <<name>>, FALSE)

RootSerializers == {"DeepSer", "ArraySer", "RelSer"}
\* Serializers with the declared field bool_field, which their model lacks
\* (custom_fields = {'bool_field': BooleanField()} of the tests): at the
\* root, and two embedded levels down.
CustomSerializers == {"CustomItemSer", "CustomDeepSer"}

\* Serializers whose embedded fields are the terminal EmbeddedModelField and
\* ArrayModelField, declared writable.
TerminalSerializers == {"TerminalSer", "TerminalArraySer"}
\* Serializers with the field `number` over the attribute int_field
\* (number = IntegerField(source='int_field')): at the root, and one
\* embedded level down.
AliasSerializers == {"AliasSer", "AliasDeepSer"}

\* "DjongoModelSerializer" or "EmbeddedModelSerializer"
SerClass(s) ==
    IF s \in {"ContainerEmb", "EmbedSer", "ItemSer", "HolderEmb",
              "CustomContainerEmb", "CustomEmbedSer", "AliasEmb"}
    THEN "EmbeddedModelSerializer" ELSE "DjongoModelSerializer"

\* Meta.model
SerModel(s) ==
    CASE s = "DeepSer" -> "DeepContainerModel"
      [] s = "ContainerEmb" -> "ContainerModel"
      [] s = "EmbedSer" -> "EmbedModel"
      [] s = "ArraySer" -> "ArrayContainerModel"
      [] s = "ItemSer" -> "ItemModel"
      [] s = "RelSer" -> "RelModel"
      [] s = "HolderEmb" -> "HolderModel"
      [] s = "FkSer" -> "FkModel"
      [] s = "CustomItemSer" -> "ItemModel"
      [] s = "CustomDeepSer" -> "DeepContainerModel"
      [] s = "CustomContainerEmb" -> "ContainerModel"
      [] s = "CustomEmbedSer" -> "EmbedModel"
      [] s = "TerminalSer" -> "ContainerModel"
      [] s = "TerminalArraySer" -> "ArrayContainerModel"
      [] s = "AliasSer" -> "ObjIDModel"
      [] s = "AliasDeepSer" -> "ContainerModel"
      [] s = "AliasEmb" -> "EmbedModel"

\* self.fields, in declaration order
SerFieldOrder(s) ==
    CASE s = "DeepSer" -> <<"control_val", "deep_embed">>
      [] s = "ContainerEmb" -> <<"control_val", "embed_field">>
      [] s = "EmbedSer" -> <<"int_field", "char_field">>
      [] s = "ArraySer" -> <<"embed_list">>
      [] s = "ItemSer" -> <<"int_field">>
      [] s = "RelSer" -> <<"fk_field", "holder", "owner">>
      [] s = "HolderEmb" -> <<"int_field", "fk_field">>
      [] s = "FkSer" -> <<"description">>
      [] s = "CustomItemSer" -> <<"int_field", "bool_field">>
      [] s = "CustomDeepSer" -> <<"control_val", "deep_embed">>
      [] s = "CustomContainerEmb" -> <<"control_val", "embed_field">>
      [] s = "CustomEmbedSer" -> <<"int_field", "bool_field">>
      [] s = "TerminalSer" -> <<"control_val", "embed_field">>
      [] s = "TerminalArraySer" -> <<"embed_list">>
      [] s = "AliasSer" -> <<"number", "char_field">>
      [] s = "AliasDeepSer" -> <<"control_val", "embed_field">>
      [] s = "AliasEmb" -> <<"number", "char_field">>

SerField(s, f) ==
    CASE s = "DeepSer" /\ f = "deep_embed" -> Nested(f, "ContainerEmb")
      [] s = "ContainerEmb" /\ f = "embed_field" -> Nested(f, "EmbedSer")
      [] s = "ArraySer" /\ f = "embed_list" -> Many(f, "ItemSer")
      [] s = "RelSer" /\ f = "fk_field" -> Nested(f, "FkSer")
      [] s = "RelSer" /\ f = "holder" -> Nested(f, "HolderEmb")
      [] s = "RelSer" /\ f = "owner" -> Field("plain", "", <<"owner", "name">>, FALSE)
      [] s = "HolderEmb" /\ f = "fk_field" -> Nested(f, "FkSer")
      [] s = "CustomDeepSer" /\ f = "deep_embed" -> Nested(f, "CustomContainerEmb")
      [] s = "CustomContainerEmb" /\ f = "embed_field" -> Nested(f, "CustomEmbedSer")
      [] s = "TerminalSer" /\ f = "embed_field" -> Field("embfield", "EmbedModel", <<f>>, FALSE)
      [] s = "TerminalArraySer" /\ f = "embed_list" ->
            Field("arrfield", "ItemModel", <<f>>, FALSE)
      [] s \in {"AliasSer", "AliasEmb"} /\ f = "number" ->
            Field("plain", "", <<"int_field">>, FALSE)
      [] s = "AliasDeepSer" /\ f = "embed_field" -> Nested(f, "AliasEmb")
      [] OTHER -> Plain(f)

FieldNames(s) == {SerFieldOrder(s)[i] : i \in 1..Len(SerFieldOrder(s))}

\* isinstance(field, EmbeddedModelSerializer)
IsEmbeddedSerializer(fd) ==
    fd.kind = "serializer" /\ SerClass(fd.child) = "EmbeddedModelSerializer"
\* isinstance(field, drf_ser.BaseSerializer)
IsBaseSerializer(fd) == fd.kind \in {"serializer", "list"}
\* isinstance(field, drf_ser.ListSerializer)
IsListSerializer(fd) == fd.kind = "list"
\* '.' in field.source
IsDotted(fd) == Len(fd.source) > 1

\* serializer._writable_fields, in order
WritableFields(s) == SelectSeq(SerFieldOrder(s), LAMBDA f : ~SerField(s, f).read_only)

\* ------------------------------------------------------------ nested guard
RECURSIVE FirstError(_)
\* The first assertion (or evaluation error) raised, scanning in order.
FirstError(errs) ==
    IF errs = <<>> THEN NoErr
    ELSE IF Head(errs).type # "none" THEN Head(errs)
    ELSE FirstError(Tail(errs))

\* The guard's first scan, for one writable field: a nested serializer that is
\* neither an EmbeddedModelSerializer nor a ListSerializer, with list or dict
\* data under its source. `field.source in validated_data` raises TypeError
\* when validated_data is None.
NestedWriteCheck(method_name, s, vd, f) ==
    LET fd == SerField(s, f) IN
    IF ~IsBaseSerializer(fd) THEN NoErr
    ELSE IF vd.t \notin {"map", "list"}
    THEN Err("TypeError", "not_iterable", method_name, s)
    ELSE IF /\ vd.t = "map"
            /\ ~IsDotted(fd)
            /\ fd.source[1] \in DOMAIN vd.m
            /\ IsListOrDict(vd.m[fd.source[1]])
            /\ ~(IsEmbeddedSerializer(fd) \/ IsListSerializer(fd))
    THEN Err("AssertionError", "nested_write", method_name, s)
    ELSE NoErr

\* The guard's second scan, for one entry (key, field) of serializer.fields:
\* a dotted source whose field name is a key of the data holding a list or dict.
DottedSourceCheck(method_name, s, vd, key) ==
    LET fd == SerField(s, key) IN
    IF ~IsDotted(fd) THEN NoErr
    ELSE IF vd.t \notin {"map", "list"}
    THEN Err("TypeError", "not_iterable", method_name, s)
    ELSE IF vd.t = "map" /\ key \in DOMAIN vd.m /\ IsListOrDict(vd.m[key])
    THEN Err("AssertionError", "dotted_source", method_name, s)
    ELSE NoErr

raise_errors_on_nested_writes(method_name, s, vd) ==
    LET wf == WritableFields(s)
        all == SerFieldOrder(s)
    IN FirstError(
        [i \in 1..Len(wf) |-> NestedWriteCheck(method_name, s, vd, wf[i])] \o
        [i \in 1..Len(all) |-> DottedSourceCheck(method_name, s, vd, all[i])])

\* ------------------------------------------------------ build_instance_data
\* The keys of validated_data in iteration order: the framework fills the
\* mapping field by field, each under the first attribute of its source.
Items(s, vd) ==
    LET order == SerFieldOrder(s)
        keyOf(i) == SerField(s, order[i]).source[1]
        first(i) == \A j \in 1..(i - 1) : keyOf(j) # keyOf(i)
        idx == SelectSeq([i \in 1..Len(order) |-> i],
                         LAMBDA i : keyOf(i) \in DOMAIN vd.m /\ first(i))
    IN [n \in 1..Len(idx) |-> keyOf(idx[n])]

\* model_class(**data): a TypeError unless data is a mapping of the model's
\* fields; fields not given take their default.
CanConstruct(m, data) == data.t = "map" /\ DOMAIN data.m \subseteq ModelFields(m)
Construct(m, data) ==
    ObjV(m, [a \in ModelFields(m) |->
                IF a \in DOMAIN data.m THEN data.m[a] ELSE ModelDefault(m, a)])

\* model_class(**data) assigns each keyword as setattr does
CanAssignAll(m, data) == \A a \in DOMAIN data.m : CanAssign(m, a, data.m[a])

RECURSIVE SetAttrs(_, _, _, _)
\* for key, val in data.items(): setattr(instance, key, val), keys being the
\* keys of data in order. Gives [inst, err]: the attributes set before an
\* assignment raised stay set.
SetAttrs(inst, s, keys, data) ==
    IF keys = <<>> THEN [inst |-> inst, err |-> NoErr]
    ELSE IF ~CanAssign(inst.model, Head(keys), data[Head(keys)])
    THEN [inst |-> inst, err |-> Err("ValueError", "cannot_assign", "update", s)]
    ELSE SetAttrs(ObjV(inst.model, SetItem(inst.attrs, Head(keys), data[Head(keys)])),
                  s, Tail(keys), data)

\* obj_data[key] = val: a TypeError once obj_data is no longer a dict
AssignItem(acc, s, key, val) ==
    IF acc.data.t = "map"
    THEN [acc EXCEPT !.data = MapV(SetItem(acc.data.m, key, val))]
    ELSE [acc EXCEPT !.err = Err("TypeError", "item_assignment", "", s)]

RECURSIVE build_instance_data(_, _, _)
RECURSIVE BuildKeys(_, _, _, _)
RECURSIVE BuildList(_, _, _, _)
RECURSIVE create(_, _)
RECURSIVE update(_, _, _)


\* AppendCreated with the new element put first.
AppendCreated_prepends(acc, key, r) ==
    IF r.err.type # "none" THEN [acc EXCEPT !.log = @ \o r.log, !.err = r.err]
    ELSE [acc EXCEPT !.log = @ \o r.log,
                     !.data = MapV(SetItem(acc.data.m, key,
                                           ListV(<<r.val>> \o acc.data.m[key].s)))]

\* obj_data[key].append(embed_instance), r being what child.create returned
AppendCreated(acc, key, r) ==
    IF r.err.type # "none" THEN [acc EXCEPT !.log = @ \o r.log, !.err = r.err]
    ELSE [acc EXCEPT !.log = @ \o r.log,
                     !.data = MapV(SetItem(acc.data.m, key,
                                           ListV(Append(acc.data.m[key].s, r.val))))]

\* The loop over a list of embedded documents: child.create(datum), appended
\* to obj_data[key] in order.
BuildList(key, child, elems, acc) ==
    IF elems = <<>> \/ acc.err.type # "none" THEN acc
    ELSE BuildList(key, child, Tail(elems),
                   AppendCreated(acc, key, create(child, Head(elems))))

\* obj_data[key] = field.create(val), r being what field.create returned
StoreCreated(acc, s, key, r) ==
    IF r.err.type # "none" THEN [acc EXCEPT !.log = @ \o r.log, !.err = r.err]
    ELSE AssignItem([acc EXCEPT !.log = @ \o r.log], s, key, r.val)

\* obj_data[key] = field.update(embed_instance, val), r being what field.update
\* returned: the embedded object was changed in place, so the instance holds
\* the changed object whether or not the call raised.
StoreUpdated(acc, s, key, r) ==
    LET a1 == [acc EXCEPT !.inst = ObjV(acc.inst.model, SetItem(acc.inst.attrs, key, r.val)),
                          !.log = @ \o r.log]
    IN IF r.err.type # "none" THEN [a1 EXCEPT !.err = r.err]
       ELSE AssignItem(a1, s, key, r.val)

\* obj_data[key] = [] and the loop over val
StoreList(a1, s, key, child, val) ==
    IF a1.err.type # "none" THEN a1
    ELSE IF val.t = "list" THEN BuildList(key, child, val.s, a1)
    ELSE IF val.t = "map" /\ DOMAIN val.m = {} THEN a1
    ELSE IF val.t = "map"
    THEN [a1 EXCEPT !.err = Err("AttributeError", "items", "", child)]
    ELSE [a1 EXCEPT !.err = Err("TypeError", "not_iterable", "", s)]


\* BuildKey as the stock ModelSerializer has it: every value copied as it is.
BuildKey_copies(s, key, val, acc) ==
    IF key \notin FieldNames(s) THEN [acc EXCEPT !.data = val]
    ELSE AssignItem(acc, s, key, val)

\* One iteration of the loop of build_instance_data. acc holds obj_data, the
\* instance (whose embedded objects nested updates change in place), the
\* events so far and the exception raised, if any.
BuildKey(s, key, val, acc) ==
    IF key \notin FieldNames(s)
    THEN [acc EXCEPT !.data = val]                     \* except KeyError
    ELSE CASE IsEmbeddedSerializer(SerField(s, key)) ->
            IF acc.inst # Null
            THEN IF acc.inst.t # "obj" \/ key \notin ModelFields(acc.inst.model)
                 THEN [acc EXCEPT !.err = Err("FieldDoesNotExist", "", "", s)]
                 ELSE StoreUpdated(acc, s, key,
                          update(SerField(s, key).child, acc.inst.attrs[key], val))
            ELSE StoreCreated(acc, s, key, create(SerField(s, key).child, val))
      [] SerField(s, key).kind = "embfield" ->
            \* field.model_field(**val): the model field object is not callable
            [acc EXCEPT !.err = Err("TypeError", "not_callable", "", s)]
      [] /\ IsListSerializer(SerField(s, key))
         /\ SerClass(SerField(s, key).child) = "EmbeddedModelSerializer" ->
            StoreList(AssignItem(acc, s, key, ListV(<<>>)), s, key,
                      SerField(s, key).child, val)
      [] OTHER -> AssignItem(acc, s, key, val)

BuildKeys(s, vd, keys, acc) ==
    IF keys = <<>> \/ acc.err.type # "none" THEN acc
    ELSE BuildKeys(s, vd, Tail(keys), BuildKey(s, Head(keys), vd.m[Head(keys)], acc))

\* Returns [data, inst, log, err]: the dictionary built (obj_data), the
\* instance after the in-place updates of its embedded objects, the events,
\* and the exception raised (data is then meaningless).
build_instance_data(s, vd, inst) ==
    IF vd.t # "map"
    THEN [data |-> MapV(EmptyMap), inst |-> inst, log |-> <<>>,
          err |-> Err("AttributeError", "items", "", s)]
    ELSE BuildKeys(s, vd, Items(s, vd),
                   [data |-> MapV(EmptyMap), inst |-> inst, log |-> <<>>, err |-> NoErr])

\* ------------------------------------------------------------ create/update
\* Results are [val, log, err]: the object returned (for update: the instance
\* as the call left it, also when it raised), the events, and the exception.
Result(val, log, err) == [val |-> val, log |-> log, err |-> err]

\* except TypeError: ... raise TypeError(msg)
WrapTypeError(e, s) ==
    [type |-> "TypeError", msg |-> "wrapped", method |-> "create", ser |-> s,
     wraps |-> e.wraps + 1]

\* The body of DjongoModelSerializer.create after the guard returned g and
\* build_instance_data returned r (not called when the guard raised).
DjongoCreateBody(s, g, r) ==
    IF g.type # "none" THEN Result(Null, <<>>, g)
    ELSE IF r.err.type = "TypeError" THEN Result(Null, r.log, WrapTypeError(r.err, s))
    ELSE IF r.err.type # "none" THEN Result(Null, r.log, r.err)
    ELSE IF ~CanConstruct(SerModel(s), r.data)
    THEN Result(Null, r.log, WrapTypeError(Err("TypeError", "constructor", "", s), s))
    ELSE IF ~CanAssignAll(SerModel(s), r.data)
    THEN Result(Null, r.log, Err("ValueError", "cannot_assign", "create", s))
    ELSE \* model_class._default_manager.create(**data)
         Result(Construct(SerModel(s), r.data),
                r.log \o <<Ev("construct", s), Ev("write", s)>>, NoErr)

DjongoModelSerializer_create(s, vd) ==
    DjongoCreateBody(s, raise_errors_on_nested_writes("create", s, vd),
                     build_instance_data(s, vd, Null))

\* instance.save() once every setattr succeeded
SavedOrRaised(a, log, s) ==
    IF a.err.type # "none" THEN Result(a.inst, log, a.err)
    ELSE Result(a.inst, log \o <<Ev("write", s)>>, NoErr)

\* The body of DjongoModelSerializer.update, likewise; inst is the instance
\* the call was given.
DjongoUpdateBody(s, inst, g, r) ==
    IF g.type # "none" THEN Result(inst, <<>>, g)
    ELSE IF r.err.type # "none" THEN Result(r.inst, r.log, r.err)
    ELSE IF r.data.t # "map"
    THEN Result(r.inst, r.log, Err("AttributeError", "items", "update", s))
    ELSE IF r.inst.t # "obj"
    THEN Result(r.inst, r.log, Err("AttributeError", "setattr", "update", s))
    ELSE \* setattr for every key, then instance.save()
         SavedOrRaised(SetAttrs(r.inst, s, Items(s, r.data), r.data.m), r.log, s)

DjongoModelSerializer_update(s, inst, vd) ==
    DjongoUpdateBody(s, inst, raise_errors_on_nested_writes("update", s, vd),
                     build_instance_data(s, vd, inst))


\* EmbeddedCreateBody going through the manager, as the parent class does.
EmbeddedCreateBody_saves(s, g, r) ==
    IF g.type # "none" THEN Result(Null, <<>>, g)
    ELSE IF r.err.type = "TypeError" THEN Result(Null, r.log, WrapTypeError(r.err, s))
    ELSE IF r.err.type # "none" THEN Result(Null, r.log, r.err)
    ELSE IF ~CanConstruct(SerModel(s), r.data)
    THEN Result(Null, r.log, WrapTypeError(Err("TypeError", "constructor", "", s), s))
    ELSE IF ~CanAssignAll(SerModel(s), r.data)
    THEN Result(Null, r.log, Err("ValueError", "cannot_assign", "create", s))
    ELSE Result(Construct(SerModel(s), r.data),
                r.log \o <<Ev("construct", s), Ev("write", s)>>, NoErr)

\* The body of EmbeddedModelSerializer.create: model_class(**data), no write.
EmbeddedCreateBody(s, g, r) ==
    IF g.type # "none" THEN Result(Null, <<>>, g)
    ELSE IF r.err.type = "TypeError" THEN Result(Null, r.log, WrapTypeError(r.err, s))
    ELSE IF r.err.type # "none" THEN Result(Null, r.log, r.err)
    ELSE IF ~CanConstruct(SerModel(s), r.data)
    THEN Result(Null, r.log, WrapTypeError(Err("TypeError", "constructor", "", s), s))
    ELSE IF ~CanAssignAll(SerModel(s), r.data)
    THEN Result(Null, r.log, Err("ValueError", "cannot_assign", "create", s))
    ELSE Result(Construct(SerModel(s), r.data), r.log \o <<Ev("construct", s)>>, NoErr)

EmbeddedModelSerializer_create(s, vd) ==
    EmbeddedCreateBody(s, raise_errors_on_nested_writes("create", s, vd),
                       build_instance_data(s, vd, Null))


\* EmbeddedUpdateBody building a fresh object from the data instead of
\* assigning onto the instance.
EmbeddedUpdateBody_rebuilds(s, r) ==
    IF r.err.type # "none" THEN Result(r.inst, r.log, r.err)
    ELSE IF ~CanConstruct(SerModel(s), r.data)
    THEN Result(r.inst, r.log, Err("TypeError", "constructor", "update", s))
    ELSE IF ~CanAssignAll(SerModel(s), r.data)
    THEN Result(r.inst, r.log, Err("ValueError", "cannot_assign", "update", s))
    ELSE Result(Construct(SerModel(s), r.data), r.log, NoErr)

\* return instance once every setattr succeeded
AssignedOrRaised(a, log) == Result(a.inst, log, a.err)

\* The body of EmbeddedModelSerializer.update: no guard, no save.
EmbeddedUpdateBody(s, r) ==
    IF r.err.type # "none" THEN Result(r.inst, r.log, r.err)
    ELSE IF r.data.t # "map"
    THEN Result(r.inst, r.log, Err("AttributeError", "items", "update", s))
    ELSE IF DOMAIN r.data.m = {} THEN Result(r.inst, r.log, NoErr)
    ELSE IF r.inst.t # "obj"
    THEN Result(r.inst, r.log, Err("AttributeError", "setattr", "update", s))
    ELSE AssignedOrRaised(SetAttrs(r.inst, s, Items(s, r.data), r.data.m), r.log)

EmbeddedModelSerializer_update(s, inst, vd) ==
    EmbeddedUpdateBody(s, build_instance_data(s, vd, inst))

\* field.create(...) / field.update(...): the method of the field's class
create(s, vd) ==
    IF SerClass(s) = "EmbeddedModelSerializer"
    THEN EmbeddedModelSerializer_create(s, vd)
    ELSE DjongoModelSerializer_create(s, vd)

update(s, inst, vd) ==
    IF SerClass(s) = "EmbeddedModelSerializer"
    THEN EmbeddedModelSerializer_update(s, inst, vd)
    ELSE DjongoModelSerializer_update(s, inst, vd)

\* ------------------------------------------------------------------ inputs
\* Sequences over S of length at most n.
SeqsUpTo(S, n) == UNION {[1..k -> S] : k \in 0..n}

RECURSIVE Payloads(_)
RECURSIVE PayloadsOver(_, _)
\* EmbeddedModelField.to_internal_value: model_class(**data), an instance of
\* the container model
ModelInstances(m) == {Construct(m, MapV("int_field" :> v)) : v \in Vals}

\* The validated values a field can deliver: null or a nested mapping for a
\* nested serializer, null or a list of nested mappings for a list, a model
\* instance or a list of them for a terminal embedded field, a mapping for
\* a dotted source, a scalar otherwise.
FieldValues(s, f) ==
    LET fd == SerField(s, f) IN
    CASE fd.kind = "serializer" -> {Null} \cup {MapV(p) : p \in Payloads(fd.child)}
      [] fd.kind = "list" /\ SerClass(fd.child) = "EmbeddedModelSerializer" ->
            {Null} \cup {ListV(q) : q \in SeqsUpTo({MapV(p) : p \in Payloads(fd.child)}, MaxLen)}
      [] fd.kind = "embfield" -> ModelInstances(fd.child)
      [] fd.kind = "arrfield" -> {ListV(q) : q \in SeqsUpTo(ModelInstances(fd.child), MaxLen)}
      [] IsDotted(fd) -> {MapV(fd.source[2] :> v) : v \in Vals}
      [] OTHER -> Vals

\* The field that fills key k of the validated data.
FieldOfKey(s, k) == CHOOSE f \in FieldNames(s) : SerField(s, f).source[1] = k

\* The mappings defined on any subset of the keys K of serializer s.
PayloadsOver(s, K) ==
    IF K = {} THEN {EmptyMap}
    ELSE LET k == CHOOSE x \in K : TRUE
             rest == PayloadsOver(s, K \ {k})
         IN rest \cup {SetItem(m, k, v) : m \in rest, v \in FieldValues(s, FieldOfKey(s, k))}

\* Every validated_data the serializer s can be saved with (a partial update
\* may leave out any key).
Payloads(s) == PayloadsOver(s, {SerField(s, f).source[1] : f \in FieldNames(s)})

\* ----------------------------------------------------------------- actions
Wrote(log) == \E i \in 1..Len(log) : log[i].e = "write"

NoOp == [method |-> "none", vd |-> Null, before |-> Null, res |-> Null,
         err |-> NoErr, log |-> <<>>]

\* The record of one call: its method and arguments and what it returned.
Did(method, vd, before, r) ==
    [method |-> method, vd |-> vd, before |-> before, res |-> r.val,
     err |-> r.err, log |-> r.log]

\* The instances a serializer can be bound to: none, or an object of its
\* model that an earlier create built and stored.
ExistingInstances(s) ==
    {create(s, MapV(p)).val : p \in {q \in Payloads(s) : create(s, MapV(q)).err.type = "none"}}

SaveInit ==
    /\ ser \in RootSerializers
    /\ instance \in {Null} \cup ExistingInstances(ser)
    /\ store = instance
    /\ last = NoOp
    /\ chain = <<>>
    /\ klass = Null
    /\ names = Null
    /\ resolved = Null
    /\ opts = Null
    /\ field_info = Null
    /\ conv = Null
    /\ custom = Null
    /\ kwargs = Null

\* serializer.save() without an instance: self.create(validated_data)
Create ==
    /\ last.method = "none"
    /\ instance = Null
    /\ \E p \in Payloads(ser) :
        /\ last' = Did("create", MapV(p), instance, create(ser, MapV(p)))
        /\ instance' = IF last'.err.type = "none" THEN last'.res ELSE instance
        /\ store' = IF Wrote(last'.log) THEN last'.res ELSE store
        /\ UNCHANGED <<ser, chain, klass, names, resolved, opts, field_info, conv, custom, kwargs>>

\* serializer.save() with an instance: self.update(instance, validated_data)
Update ==
    /\ last.method = "none"
    /\ instance # Null
    /\ \E p \in Payloads(ser) :
        /\ last' = Did("update", MapV(p), instance, update(ser, instance, MapV(p)))
        /\ instance' = last'.res
        /\ store' = IF Wrote(last'.log) THEN last'.res ELSE store
        /\ UNCHANGED <<ser, chain, klass, names, resolved, opts, field_info, conv, custom, kwargs>>

SaveNext == Create \/ Update

SpecSave == SaveInit /\ [][SaveNext]_vars

CustomInit ==
    /\ ser \in CustomSerializers
    /\ instance \in {Null} \cup ExistingInstances(ser)
    /\ store = instance
    /\ last = NoOp
    /\ chain = <<>>
    /\ klass = Null
    /\ names = Null
    /\ resolved = Null
    /\ opts = Null
    /\ field_info = Null
    /\ conv = Null
    /\ custom = Null
    /\ kwargs = Null

SpecCustom == CustomInit /\ [][SaveNext]_vars

TerminalInit ==
    /\ ser \in TerminalSerializers
    /\ instance \in {Null} \cup ExistingInstances(ser)
    /\ store = instance
    /\ last = NoOp
    /\ chain = <<>>
    /\ klass = Null
    /\ names = Null
    /\ resolved = Null
    /\ opts = Null
    /\ field_info = Null
    /\ conv = Null
    /\ custom = Null
    /\ kwargs = Null

SpecTerminal == TerminalInit /\ [][SaveNext]_vars

AliasInit ==
    /\ ser \in AliasSerializers
    /\ instance \in {Null} \cup ExistingInstances(ser)
    /\ store = instance
    /\ last = NoOp
    /\ chain = <<>>
    /\ klass = Null
    /\ names = Null
    /\ resolved = Null
    /\ opts = Null
    /\ field_info = Null
    /\ conv = Null
    /\ custom = Null
    /\ kwargs = Null

SpecAlias == AliasInit /\ [][SaveNext]_vars

\* ======================================================== field resolution
\* Names are lists of the parts a dot separates: 'embed.control_val' is
\* <<"embed", "control_val">>, so that '.' in name is Len(name) > 1.
StrV(x) == [t |-> "str", str |-> x]
\* drf_ser.ALL_FIELDS
ALL_FIELDS == StrV("__all__")
\* getattr(self.Meta, 'embed_depth', 5)
DefaultEmbedDepth == 5
\* assert rel_depth <= 10
MaxRelDepth == 10

\* bool(v), as `fields and exclude` and `if customization.fields` test it
Truthy(v) ==
    CASE v.t = "null" -> FALSE
      [] v.t = "int" -> v.i # 0
      [] v.t = "list" -> v.s # <<>>
      [] v.t = "str" -> v.str # ""
      [] OTHER -> TRUE

Range(q) == {q[i] : i \in 1..Len(q)}

\* [name for name in names if '.' not in name]
NotDotted(q) == SelectSeq(q, LAMBDA n : Len(n) = 1)

RECURSIVE Remove(_, _)
\* list.remove(x): the list without its first x
Remove(q, x) ==
    IF q = <<>> THEN <<>>
    ELSE IF Head(q) = x THEN Tail(q)
    ELSE <<Head(q)>> \o Remove(Tail(q), x)

\* ---- model meta
\* meta_manager.get_field_info, over a description of model._meta.
\* A dict is the list of its items [k, v] in insertion order.
\* d[key] = val
DictSet(d, key, val) ==
    IF \E i \in 1..Len(d) : d[i].k = key
    THEN [i \in 1..Len(d) |-> IF d[i].k = key THEN [k |-> key, v |-> val] ELSE d[i]]
    ELSE Append(d, [k |-> key, v |-> val])

RECURSIVE DictUpdate(_, _)
\* d.update(other)
DictUpdate(d, other) ==
    IF other = <<>> THEN d
    ELSE DictUpdate(DictSet(d, Head(other).k, Head(other).v), Tail(other))

\* list(d.keys())
Keys(d) == [i \in 1..Len(d) |-> d[i].k]
\* key in d
HasKey(d, key) == \E i \in 1..Len(d) : d[i].k = key
\* d[key]
DictGet(d, key) == d[CHOOSE i \in 1..Len(d) : d[i].k = key].v

\* A model field: its name, its class, its serialize flag (Django clears it
\* on the primary key) and whether it is the primary key.
ModelField(name, cls, serialize, primary_key) ==
    [t |-> "field", name |-> name, cls |-> cls, serialize |-> serialize,
     primary_key |-> primary_key, model_container |-> Null, related_model |-> Null]
\* An EmbeddedModelField or ArrayModelField over the model model_container.
ContainerField(name, cls, model_container) ==
    [t |-> "field", name |-> name, cls |-> cls, serialize |-> TRUE,
     primary_key |-> FALSE, model_container |-> model_container, related_model |-> Null]
\* A ForeignKey, ArrayReferenceField or ManyToManyField to the model
\* related_model (field.remote_field.model).
RelationField(name, cls, related_model) ==
    [t |-> "field", name |-> name, cls |-> cls, serialize |-> TRUE,
     primary_key |-> FALSE, model_container |-> Null, related_model |-> related_model]

\* isinstance(field, cls): ArrayReferenceField derives from ForeignKey
IsInstance(field, cls) ==
    \/ field.cls = cls
    \/ field.cls = "ArrayReferenceField" /\ cls = "ForeignKey"

\* field.remote_field, set on relational fields only
HasRemoteField(field) ==
    IsInstance(field, "ForeignKey") \/ IsInstance(field, "ManyToManyField")

\* hasattr(field, 'model_container')
HasModelContainer(field) ==
    IsInstance(field, "EmbeddedModelField") \/ IsInstance(field, "ArrayModelField")

\* model_meta.RelationInfo
RelationInfo(model_field, related_model, to_many, reverse) ==
    [t |-> "relation", model_field |-> model_field, related_model |-> related_model,
     to_many |-> to_many, reverse |-> reverse]

\* the EmbedInfo namedtuple
EmbedInfoTuple(model_field, is_array) ==
    [t |-> "embed", model_field |-> model_field, is_array |-> is_array]

\* one turn of the first loop of _build_generic_field_info
GenericFieldStep_falls_through(acc, field) ==
    IF HasRemoteField(field)
    THEN [acc EXCEPT !.forward_relations = DictSet(@, field.name,
              RelationInfo(field, field.related_model,
                           IsInstance(field, "ArrayReferenceField"), FALSE)),
                     !.basic_fields = DictSet(@, field.name, field)]
    ELSE IF HasModelContainer(field)
    THEN [acc EXCEPT !.embedded_fields = DictSet(@, field.name,
              EmbedInfoTuple(field, IsInstance(field, "ArrayModelField"))),
                     !.basic_fields = DictSet(@, field.name, field)]
    ELSE [acc EXCEPT !.basic_fields = DictSet(@, field.name, field)]

GenericFieldStep(acc, field) ==
    IF HasRemoteField(field)
    THEN [acc EXCEPT !.forward_relations = DictSet(@, field.name,
              RelationInfo(field, field.related_model,
                           IsInstance(field, "ArrayReferenceField"), FALSE))]
    ELSE IF HasModelContainer(field)
    THEN [acc EXCEPT !.embedded_fields = DictSet(@, field.name,
              EmbedInfoTuple(field, IsInstance(field, "ArrayModelField")))]
    ELSE [acc EXCEPT !.basic_fields = DictSet(@, field.name, field)]

RECURSIVE GenericFieldLoop(_, _)
\* for field in [field for field in opts.fields if field.serialize]
GenericFieldLoop(todo, acc) ==
    IF todo = <<>> THEN acc
    ELSE GenericFieldLoop(Tail(todo),
             IF Head(todo).serialize THEN GenericFieldStep(acc, Head(todo)) ELSE acc)

RECURSIVE ManyToManyLoop(_, _)
\* for field in [field for field in opts.many_to_many if field.serialize]
ManyToManyLoop(todo, acc) ==
    IF todo = <<>> THEN acc
    ELSE ManyToManyLoop(Tail(todo),
             IF Head(todo).serialize
             THEN [acc EXCEPT !.forward_relations = DictSet(@, Head(todo).name,
                       RelationInfo(Head(todo), Head(todo).related_model, TRUE, FALSE))]
             ELSE acc)

\* _build_generic_field_info(opts)
build_generic_field_info(o) ==
    ManyToManyLoop(o.many_to_many,
        GenericFieldLoop(o.fields,
            [basic_fields |-> <<>>, forward_relations |-> <<>>, embedded_fields |-> <<>>]))

RECURSIVE build_reverse_field_info(_)
\* _build_reverse_field_info(opts), over opts.related_objects
build_reverse_field_info(related_objects) ==
    IF related_objects = <<>> THEN <<>>
    ELSE LET relation == related_objects[Len(related_objects)]
         IN  DictSet(build_reverse_field_info(SubSeq(related_objects, 1, Len(related_objects) - 1)),
                     relation.accessor_name,
                     RelationInfo(Null, relation.related_model, relation.many_to_many, TRUE))

\* _merge_fields_and_pk(pk, fields)
merge_fields_and_pk(pk, fields) ==
    DictUpdate(IF pk # Null
               THEN DictSet(DictSet(<<>>, "pk", pk), pk.name, pk)
               ELSE DictSet(<<>>, "pk", pk),
               fields)

\* the merge with the forward relations written last
merge_relations_forward_last(fwd_relations, rvs_relations) ==
    DictUpdate(DictUpdate(<<>>, rvs_relations), fwd_relations)

\* _merge_relations(fwd_relations, rvs_relations)
merge_relations(fwd_relations, rvs_relations) ==
    DictUpdate(DictUpdate(<<>>, fwd_relations), rvs_relations)

\* model_meta._get_pk(opts): opts.pk, the field setup_pk chose
get_pk(o) ==
    IF \E i \in 1..Len(o.fields) : o.fields[i].primary_key
    THEN o.fields[CHOOSE i \in 1..Len(o.fields) : o.fields[i].primary_key]
    ELSE Null

\* the FieldInfo namedtuple get_field_info(model) returns
FieldInfo(o) ==
    LET pk == IF o.abstract THEN Null ELSE get_pk(o)
        g == build_generic_field_info(o)
        rvs_relations == build_reverse_field_info(o.related_objects)
    IN  [pk |-> pk,
         fields |-> g.basic_fields,
         forward_relations |-> g.forward_relations,
         reverse_relations |-> rvs_relations,
         embedded |-> g.embedded_fields,
         fields_and_pk |-> merge_fields_and_pk(pk, g.basic_fields),
         relations |-> merge_relations(g.forward_relations, rvs_relations)]

\* ---- the models. Meta.model is IntV(i), model i of the chain g, or a model
\* description. In a chain model 0 embeds model 1 under `embed`, model 1
\* embeds model 2, ...; the innermost one is abstract, as EmbedModel is, the
\* others have the primary key _id, as ContainerModel has. attributes are
\* the class attributes that are no field (managers, properties).
ChainOpts(g, i) ==
    [t |-> "opts", abstract |-> i = Len(g),
     fields |-> (IF i = Len(g) THEN <<>>
                 ELSE <<ModelField("_id", "ObjectIdField", FALSE, TRUE)>>)
                \o <<ModelField("control_val", "CharField", TRUE, FALSE)>>
                \o (IF i < Len(g)
                    THEN <<ContainerField("embed",
                                          IF g[i + 1] THEN "ArrayModelField"
                                          ELSE "EmbeddedModelField",
                                          IntV(i + 1))>>
                    ELSE <<>>),
     many_to_many |-> <<>>, related_objects |-> <<>>, attributes |-> {"objects"}]

\* Model i of a graph of models, a list of model descriptions that name
\* each other so
RefV(i) == [t |-> "ref", i |-> i]

ModelOpts(g, model) ==
    IF model.t = "int" THEN ChainOpts(g, model.i)
    ELSE IF model.t = "ref" THEN g[model.i]
    ELSE model

is_model_abstract(g, model) == ModelOpts(g, model).abstract

\* meta_manager.get_field_info(model)
get_field_info(g, model) == FieldInfo(ModelOpts(g, model))

\* hasattr(model_class, field_name): fields, relation descriptors and the
\* pk property are class attributes too
HasAttr(o, field_name) ==
    \/ field_name \in o.attributes \cup {"pk"}
    \/ \E i \in 1..Len(o.fields) : o.fields[i].name = field_name
    \/ \E i \in 1..Len(o.many_to_many) : o.many_to_many[i].name = field_name
    \/ \E i \in 1..Len(o.related_objects) : o.related_objects[i].accessor_name = field_name

\* api_settings.URL_FIELD_NAME
URL_FIELD_NAME == "url"

\* ---- serializer classes
\* A serializer class: its base ("DjongoModelSerializer" or
\* "EmbeddedModelSerializer"), its Meta (Null when it has none), the fields
\* declared in its own body and its parent's _declared_fields.
Meta(model, fields, exclude, depth, embed_depth) ==
    [model |-> model, fields |-> fields, exclude |-> exclude, depth |-> depth,
     embed_depth |-> embed_depth, extra_kwargs |-> <<>>]
\* methods are the names of the class's validate... attributes
Klass(base, meta, own, parent) ==
    [base |-> base, meta |-> meta, own |-> own, parent |-> parent, methods |-> {}]

\* self._declared_fields: the parent's that the class does not redeclare,
\* then its own
DeclaredFields(k) ==
    SelectSeq(k.parent, LAMBDA n : n \notin Range(k.own)) \o k.own

\* self._saving_instances
SavingInstances(k) == k.base = "DjongoModelSerializer"

\* DjongoModelSerializer.get_default_field_names and the override of
\* EmbeddedModelSerializer, which leaves out the pk
get_default_field_names(k, declared_fields, info) ==
    IF k.base = "EmbeddedModelSerializer"
    THEN [err |-> NoErr,
          val |-> [i \in 1..Len(declared_fields) |-> <<declared_fields[i]>>]
                  \o [i \in 1..Len(info.fields) |-> <<info.fields[i].k>>]
                  \o [i \in 1..Len(info.forward_relations) |-> <<info.forward_relations[i].k>>]
                  \o [i \in 1..Len(info.embedded) |-> <<info.embedded[i].k>>]]
    ELSE IF info.pk = Null
    THEN [err |-> Err("AttributeError", "pk_name", "get_default_field_names", ""),
          val |-> <<>>]
    ELSE [err |-> NoErr,
          val |-> <<<<info.pk.name>>>>
                  \o [i \in 1..Len(declared_fields) |-> <<declared_fields[i]>>]
                  \o [i \in 1..Len(info.fields) |-> <<info.fields[i].k>>]
                  \o [i \in 1..Len(info.forward_relations) |-> <<info.forward_relations[i].k>>]
                  \o [i \in 1..Len(info.embedded) |-> <<info.embedded[i].k>>]]

\* required_field_names: the declared fields that no direct base declares
RequiredFieldNames(k, declared_fields) ==
    {n \in Range(declared_fields) : n \notin Range(k.parent)}

RECURSIVE ExcludeLoop(_, _, _)
\* The loop over the undotted names of exclude: acc is [err, val], val being
\* the list `fields` as removed from so far.
ExcludeLoop(k, todo, acc) ==
    IF todo = <<>> \/ acc.err.type # "none" THEN acc
    ELSE IF Head(todo)[1] \in Range(DeclaredFields(k))
    THEN [acc EXCEPT !.err = Err("AssertionError", "declared_and_excluded", "get_field_names", "")]
    ELSE IF Head(todo) \notin Range(acc.val)
    THEN [acc EXCEPT !.err = Err("AssertionError", "excluded_not_a_field", "get_field_names", "")]
    ELSE ExcludeLoop(k, Tail(todo), [acc EXCEPT !.val = Remove(acc.val, Head(todo))])

\* The result [err, val] with the dotted names filtered out of val
FilterChildren(r) ==
    IF r.err.type # "none" THEN [err |-> r.err, val |-> <<>>]
    ELSE [err |-> NoErr, val |-> NotDotted(r.val)]

get_field_names(k, declared_fields, info) ==
    LET fields == k.meta.fields
        exclude == k.meta.exclude
    IN
    IF Truthy(fields) /\ Truthy(exclude)
    THEN [err |-> Err("AssertionError", "fields_and_exclude", "get_field_names", ""),
          val |-> <<>>]
    ELSE IF fields # Null
    THEN IF fields = ALL_FIELDS
         THEN get_default_field_names(k, declared_fields, info)   \* unfiltered
         ELSE IF fields.t = "list"
         THEN IF \E n \in RequiredFieldNames(k, declared_fields) : <<n>> \notin Range(fields.s)
              THEN [err |-> Err("AssertionError", "declared_not_included", "get_field_names", ""),
                    val |-> <<>>]
              ELSE FilterChildren([err |-> NoErr, val |-> fields.s])
         ELSE [err |-> Err("TypeError", "fields_option", "get_field_names", ""), val |-> <<>>]
    ELSE IF exclude # Null
    THEN IF exclude.t # "list"
         THEN [err |-> Err("TypeError", "not_iterable", "get_field_names", ""), val |-> <<>>]
         ELSE FilterChildren(
                ExcludeLoop(k, NotDotted(exclude.s),
                            get_default_field_names(k, declared_fields, info)))
    ELSE [err |-> Err("AssertionError", "neither_fields_nor_exclude", "get_field_names", ""),
          val |-> <<>>]

\* ---- building the fields
\* A serializer field as built: its class, read_only and many, for a nested
\* serializer the class generated for it (nested) and, once bound, that
\* serializer's own fields (sub).
BuiltField(cls, read_only, many, nested) ==
    [cls |-> cls, read_only |-> read_only, many |-> many, nested |-> nested, sub |-> Null]

\* ---- strings. A name is the list of its dot-separated parts; its text is
\* the list of its characters, a part counting as one character unless
\* another name begins with it.
Chars(part) == IF part = "embed_extra" THEN <<"embed", "_extra">> ELSE <<part>>

RECURSIVE Text(_)
\* '.'.join(parts)
Text(n) ==
    IF n = <<>> THEN <<>>
    ELSE IF Len(n) = 1 THEN Chars(n[1])
    ELSE Chars(n[1]) \o <<".">> \o Text(Tail(n))

\* the part that the characters cs spell
Unchars(cs) == IF cs = <<"embed", "_extra">> THEN "embed_extra" ELSE cs[1]

RECURSIVE Parts(_, _)
\* text.split('.'), cs being the characters of the part read so far
Parts(text, cs) ==
    IF text = <<>> THEN <<Unchars(cs)>>
    ELSE IF Head(text) = "." THEN <<Unchars(cs)>> \o Parts(Tail(text), <<>>)
    ELSE Parts(Tail(text), Append(cs, Head(text)))

\* text.startswith(lead)
StartsWith(text, lead) ==
    Len(text) >= Len(lead) /\ SubSeq(text, 1, Len(lead)) = lead

\* text[len(lead):]
After(text, lead) == SubSeq(text, Len(lead) + 1, Len(text))

\* NestedNames testing the field name without the dot that follows it
NestedNames_without_dot(q, field_name) ==
    LET mine == SelectSeq(q, LAMBDA n : Len(n) > 1 /\ StartsWith(Text(n), Chars(field_name)))
    IN [i \in 1..Len(mine) |-> Tail(mine[i])]

\* [field[len(leading_str):] for field in names if field.startswith(leading_str)]
NestedNames(q, field_name) ==
    LET leading_str == Chars(field_name) \o <<".">>
        mine == SelectSeq(q, LAMBDA n : StartsWith(Text(n), leading_str))
    IN [i \in 1..Len(mine) |-> Parts(After(Text(mine[i]), leading_str), <<>>)]

\* {key[len(leading_str):]: value for key, value in extra_kwargs.items()
\*  if key.startswith(leading_str)}
NestedExtraKwargs(extra_kwargs, field_name) ==
    LET leading_str == Chars(field_name) \o <<".">>
        mine == SelectSeq(extra_kwargs, LAMBDA it : StartsWith(Text(it.k), leading_str))
    IN [i \in 1..Len(mine) |->
            [k |-> Parts(After(Text(mine[i].k), leading_str), <<>>), v |-> mine[i].v]]

\* 'validate_{}__'.format(field_name.replace('.', '__'))
ValidLeadStr(field_name) == <<"validate", "_">> \o Chars(field_name) \o <<"_", "_">>

\* nested_validate_methods: 'validate' + attr[len(valid_lead_str):] for every
\* attribute of the class that starts with valid_lead_str
NestedValidateMethods(methods, field_name) ==
    {[name |-> <<"validate">> \o After(attr, ValidLeadStr(field_name)), method |-> attr] :
     attr \in {a \in methods : StartsWith(a, ValidLeadStr(field_name))}}

\* Customization(nested_fields, nested_exclude, nested_extra_kwargs,
\* nested_validate_methods) of the parent k for the field; only reached once
\* get_field_names accepted the parent's Meta.
get_nested_field_customization(k, field_name) ==
    [fields |-> IF k.meta.fields = Null THEN Null
                ELSE IF k.meta.fields = ALL_FIELDS THEN ALL_FIELDS
                ELSE ListV(NestedNames(k.meta.fields.s, field_name)),
     exclude |-> IF k.meta.fields # Null THEN Null
                 ELSE ListV(NestedNames(k.meta.exclude.s, field_name)),
     extra_kwargs |-> NestedExtraKwargs(k.meta.extra_kwargs, field_name),
     validate_methods |-> NestedValidateMethods(k.methods, field_name)]

\* serializer.Meta.fields / serializer.Meta.exclude of apply_customization
ApplyNames(serializer, customization) ==
    IF Truthy(customization.fields)
    THEN [serializer EXCEPT !.meta.fields = customization.fields]
    ELSE IF Truthy(customization.exclude)
    THEN [serializer EXCEPT !.meta.exclude = customization.exclude]
    ELSE serializer

\* apply_customization: the names, then Meta.extra_kwargs, then
\* setattr(serializer, method_name, method) for every validation method
apply_customization(serializer, customization) ==
    [ApplyNames(serializer, customization) EXCEPT
        !.meta.extra_kwargs = customization.extra_kwargs,
        !.methods = @ \cup {m.name : m \in customization.validate_methods}]

\* kwarg_manager.get_generic_embed_kwargs: read_only = True
build_root_embed_field(embed_info) ==
    BuiltField(IF embed_info.is_array THEN "ArrayModelField" ELSE "EmbeddedModelField",
               TRUE, FALSE, Null)

\* build_nested_embed_field handing its own depth on to the nested class
build_nested_embed_field_same_depth(k, field_name, embed_info, depth) ==
    BuiltField("EmbeddedSerializer", FALSE, embed_info.is_array,
               apply_customization(
                   Klass("EmbeddedModelSerializer",
                         Meta(embed_info.model_field.model_container, ALL_FIELDS, Null, Null,
                              IntV(depth)),
                         <<>>, <<>>),
                   get_nested_field_customization(k, field_name)))

\* build_nested_embed_field handing the parent's relation depth on to the
\* nested class
build_nested_embed_field_keeps_depth(k, field_name, embed_info, depth) ==
    BuiltField("EmbeddedSerializer", FALSE, embed_info.is_array,
               apply_customization(
                   Klass("EmbeddedModelSerializer",
                         Meta(embed_info.model_field.model_container, ALL_FIELDS, Null,
                              k.meta.depth, IntV(depth - 1)),
                         <<>>, <<>>),
                   get_nested_field_customization(k, field_name)))

\* class EmbeddedSerializer(EmbeddedModelSerializer) with
\* Meta: model = model_container, fields = '__all__', embed_depth = depth - 1;
\* kwarg_manager.get_nested_embed_kwargs: many = True for an array
build_nested_embed_field(k, field_name, embed_info, depth) ==
    BuiltField("EmbeddedSerializer", FALSE, embed_info.is_array,
               apply_customization(
                   Klass("EmbeddedModelSerializer",
                         Meta(embed_info.model_field.model_container, ALL_FIELDS, Null, Null,
                              IntV(depth - 1)),
                         <<>>, <<>>),
                   get_nested_field_customization(k, field_name)))

\* build_nested_relation_field taking two from the depth
build_nested_relation_field_two_down(relation_info, nested_depth) ==
    BuiltField("NestedRelationSerializer", TRUE, relation_info.to_many,
               Klass("DjongoModelSerializer",
                     Meta(relation_info.related_model, ALL_FIELDS, Null,
                          IntV(nested_depth - 2), Null),
                     <<>>, <<>>))

\* class NestedRelationSerializer(DjongoModelSerializer) with
\* Meta: model = related_model, depth = nested_depth - 1, fields = '__all__';
\* get_nested_relation_kwargs: read_only = True, many = to_many
build_nested_relation_field(relation_info, nested_depth) ==
    BuiltField("NestedRelationSerializer", TRUE, relation_info.to_many,
               Klass("DjongoModelSerializer",
                     Meta(relation_info.related_model, ALL_FIELDS, Null,
                          IntV(nested_depth - 1), Null),
                     <<>>, <<>>))

\* build_standard_field: the class lookup fails on a model_field of None
build_standard_field(field_name, model_field) ==
    IF model_field = Null
    THEN [err |-> Err("KeyError", "class_lookup", "build_standard_field", ""), field |-> Null]
    ELSE [err |-> NoErr, field |-> BuiltField("ModelField", FALSE, FALSE, Null)]

\* build_field with the class attributes looked up before the model's
\* relations and embedded fields
build_field_attributes_first(g, k, field_name, info, nested_depth, embed_depth) ==
    CASE HasKey(info.fields_and_pk, field_name) ->
            build_standard_field(field_name, DictGet(info.fields_and_pk, field_name))
      [] HasAttr(ModelOpts(g, k.meta.model), field_name) ->
            [err |-> NoErr, field |-> BuiltField("ReadOnlyField", TRUE, FALSE, Null)]
      [] field_name = URL_FIELD_NAME ->
            [err |-> NoErr, field |-> BuiltField("HyperlinkedIdentityField", TRUE, FALSE, Null)]
      [] OTHER ->
            [err |-> Err("ImproperlyConfigured", "unknown_field", "build_field", ""),
             field |-> Null]

\* build_field: [err, field], the first case that matches
build_field(g, k, field_name, info, nested_depth, embed_depth) ==
    CASE HasKey(info.fields_and_pk, field_name) ->
            build_standard_field(field_name, DictGet(info.fields_and_pk, field_name))
      [] HasKey(info.relations, field_name) ->
            [err |-> NoErr,
             field |-> IF nested_depth = 0
                       THEN BuiltField("RelatedField", FALSE, FALSE, Null)
                       ELSE build_nested_relation_field(DictGet(info.relations, field_name),
                                                        nested_depth)]
      [] HasKey(info.embedded, field_name) ->
            [err |-> NoErr,
             field |-> IF embed_depth = 0
                       THEN build_root_embed_field(DictGet(info.embedded, field_name))
                       ELSE build_nested_embed_field(k, field_name,
                                DictGet(info.embedded, field_name), embed_depth)]
      [] HasAttr(ModelOpts(g, k.meta.model), field_name) ->
            [err |-> NoErr, field |-> BuiltField("ReadOnlyField", TRUE, FALSE, Null)]
      [] field_name = URL_FIELD_NAME ->
            [err |-> NoErr, field |-> BuiltField("HyperlinkedIdentityField", TRUE, FALSE, Null)]
      [] OTHER ->
            [err |-> Err("ImproperlyConfigured", "unknown_field", "build_field", ""),
             field |-> Null]

\* fields[field_name] = field, in a dict that keeps insertion order
SetField(val, name, field) ==
    IF \E i \in 1..Len(val) : val[i].name = name
    THEN [i \in 1..Len(val) |-> IF val[i].name = name
                                THEN [name |-> name, field |-> field] ELSE val[i]]
    ELSE Append(val, [name |-> name, field |-> field])

\* One iteration of the loop of get_fields, b being what build_field gave
FieldStep(acc, k, field_name, b) ==
    IF field_name \in Range(DeclaredFields(k))
    THEN [acc EXCEPT !.val = SetField(acc.val, field_name,
                                      BuiltField("Declared", FALSE, FALSE, Null))]
    ELSE IF b.err.type # "none" THEN [acc EXCEPT !.err = b.err]
    ELSE [acc EXCEPT !.val = SetField(acc.val, field_name, b.field),
                     !.built = @ + 1]

RECURSIVE FieldLoop(_, _, _, _, _, _)
\* for field_name in field_names; acc is [err, val, built], built counting
\* the field objects constructed
FieldLoop(g, k, rel_depth, emb_depth, todo, acc) ==
    IF todo = <<>> \/ acc.err.type # "none" THEN acc
    ELSE FieldLoop(g, k, rel_depth, emb_depth, Tail(todo),
             FieldStep(acc, k, Head(todo)[1],
                 build_field(g, k, Head(todo)[1], get_field_info(g, k.meta.model),
                             rel_depth, emb_depth)))

\* get_fields from `info = ...` on, nm being what get_field_names returned
BuildFields(g, k, rel_depth, emb_depth, nm) ==
    IF nm.err.type # "none" THEN [err |-> nm.err, val |-> <<>>, built |-> 0]
    ELSE LET r == FieldLoop(g, k, rel_depth, emb_depth, nm.val,
                            [err |-> NoErr, val |-> <<>>, built |-> 0])
         IN IF r.err.type # "none" THEN [r EXCEPT !.val = <<>>] ELSE r

\* getattr(self.Meta, 'depth', 0) and getattr(self.Meta, 'embed_depth', 5)
RelDepth_clamped(k) ==
    IF k.meta.depth = Null \/ k.meta.depth.i < 0 THEN 0
    ELSE IF k.meta.depth.i > MaxRelDepth THEN MaxRelDepth ELSE k.meta.depth.i
RelDepth(k) == IF k.meta.depth = Null THEN 0 ELSE k.meta.depth.i
EmbDepth(k) == IF k.meta.embed_depth = Null THEN DefaultEmbedDepth ELSE k.meta.embed_depth.i

\* Fails with the error e before anything is built
Refuse(e) == [err |-> e, val |-> <<>>, built |-> 0]

\* The models carry no unique_together and no unique_for_date constraint, so
\* get_uniqueness_extra_kwargs changes nothing and adds no hidden field.
get_fields(g, k) ==
    IF k.meta = Null THEN Refuse(Err("AssertionError", "missing_meta", "get_fields", ""))
    ELSE IF k.meta.model = Null
    THEN Refuse(Err("AssertionError", "missing_model", "get_fields", ""))
    ELSE IF is_model_abstract(g, k.meta.model) /\ SavingInstances(k)
    THEN Refuse(Err("ValueError", "abstract_model", "get_fields", ""))
    ELSE IF RelDepth(k) < 0
    THEN Refuse(Err("AssertionError", "depth_negative", "get_fields", ""))
    ELSE IF RelDepth(k) > MaxRelDepth
    THEN Refuse(Err("AssertionError", "depth_over_10", "get_fields", ""))
    ELSE IF EmbDepth(k) < 0
    THEN Refuse(Err("AssertionError", "embed_depth_negative", "get_fields", ""))
    ELSE BuildFields(g, k, RelDepth(k), EmbDepth(k),
                     get_field_names(k, DeclaredFields(k), get_field_info(g, k.meta.model)))

RECURSIVE FieldTree(_, _)
RECURSIVE BindAll(_, _)
\* serializer.fields of every nested serializer: each binds its own
\* get_fields() when its fields are read
BindAll(g, r) ==
    [r EXCEPT !.val = [i \in 1..Len(r.val) |->
        IF r.val[i].field.nested = Null THEN r.val[i]
        ELSE [r.val[i] EXCEPT !.field.sub = FieldTree(g, r.val[i].field.nested)]]]

\* The fields of the serializer class k and, below each nested serializer,
\* its fields in turn
FieldTree(g, k) == BindAll(g, get_fields(g, k))

\* ---- the serializer classes resolved
TopNames == {<<"control_val">>, <<"embed">>, <<"extra">>, <<"shared">>,
             <<"embed", "control_val">>}
DeclaredNames == <<"extra", "shared">>
DeclaredLists == {SelectSeq(DeclaredNames, LAMBDA n : n \in S) : S \in SUBSET Range(DeclaredNames)}

\* Classes over the model m, with every Meta.fields and Meta.exclude and every
\* split of the declared fields between the class and its parent.
NamesClasses(m) ==
    {Klass("DjongoModelSerializer", Meta(IntV(m), f, x, Null, Null), own, parent) :
        f \in {Null, ALL_FIELDS, IntV(1)} \cup {ListV(q) : q \in SeqsUpTo(TopNames, MaxNames)},
        x \in {Null} \cup {ListV(q) : q \in SeqsUpTo(TopNames, MaxNames)},
        own \in DeclaredLists, parent \in DeclaredLists}

\* Classes with fields = '__all__' over chains of any length, with every
\* depth and embed_depth, and the classes without a Meta, a Meta.model or
\* both of Meta.fields and Meta.exclude.
TreeClasses ==
    {Klass(b, Meta(IntV(0), ALL_FIELDS, Null, d, e), <<>>, <<>>) :
        b \in {"DjongoModelSerializer", "EmbeddedModelSerializer"},
        d \in {Null, IntV(-1), IntV(0), IntV(MaxRelDepth), IntV(MaxRelDepth + 1)},
        e \in {Null} \cup {IntV(n) : n \in -1..MaxChain}}
    \cup {Klass("DjongoModelSerializer", Null, <<>>, <<>>),
          Klass("DjongoModelSerializer", Meta(Null, ALL_FIELDS, Null, Null, Null), <<>>, <<>>),
          Klass("DjongoModelSerializer", Meta(IntV(0), Null, Null, Null, Null), <<>>, <<>>),
          Klass("EmbeddedModelSerializer", Meta(IntV(0), Null, Null, Null, Null), <<>>, <<>>)}

FieldsIdle ==
    /\ ser = ""
    /\ instance = Null
    /\ store = Null
    /\ last = NoOp
    /\ names = Null
    /\ resolved = Null

NamesInit ==
    /\ opts = Null
    /\ field_info = Null
    /\ conv = Null
    /\ custom = Null
    /\ kwargs = Null
    /\ chain \in {<<FALSE>>, <<TRUE>>}
    /\ klass \in NamesClasses(0)
    /\ FieldsIdle

TreeInit ==
    /\ opts = Null
    /\ field_info = Null
    /\ conv = Null
    /\ custom = Null
    /\ kwargs = Null
    /\ chain \in SeqsUpTo(BOOLEAN, MaxChain)
    /\ klass \in TreeClasses
    /\ FieldsIdle

\* serializer.fields read for the first time: get_fields(), and below it the
\* fields of every nested serializer
GetFields ==
    /\ resolved = Null
    /\ names' = IF klass.meta = Null \/ klass.meta.model = Null
                THEN [err |-> Err("AttributeError", "meta", "get_field_names", ""), val |-> <<>>]
                ELSE get_field_names(klass, DeclaredFields(klass),
                                     get_field_info(chain, klass.meta.model))
    /\ resolved' = FieldTree(chain, klass)
    /\ UNCHANGED <<ser, instance, store, last, chain, klass, opts, field_info, conv, custom, kwargs>>

FieldsNext == GetFields

SpecNames == NamesInit /\ [][FieldsNext]_vars
SpecTree == TreeInit /\ [][FieldsNext]_vars

\* ---- serializers over models whose names match several cases of build_field
\* the model the relations point to
RelatedModel ==
    [t |-> "opts", abstract |-> FALSE,
     fields |-> <<ModelField("_id", "ObjectIdField", FALSE, TRUE),
                  ModelField("control_val", "CharField", TRUE, FALSE)>>,
     many_to_many |-> <<>>, related_objects |-> <<>>, attributes |-> {"objects"}]

\* what the attribute `url` of the model is
UrlRoles == {"field", "relation", "embedded", "attribute", "none"}

UrlField(role) ==
    CASE role = "field" -> <<ModelField("url", "URLField", TRUE, FALSE)>>
      [] role = "relation" -> <<RelationField("url", "ForeignKey", RelatedModel)>>
      [] role = "embedded" -> <<ContainerField("url", "EmbeddedModelField", IntV(0))>>
      [] OTHER -> <<>>

\* Models with a plain field, a foreign key, a many-to-many field, an
\* embedded field over model 0 of the chain, a manager and a property; the
\* concrete ones with a primary key and a reverse relation.
DispatchModels ==
    {[t |-> "opts", abstract |-> a,
      fields |-> (IF a THEN <<>> ELSE <<ModelField("_id", "ObjectIdField", FALSE, TRUE)>>)
                 \o <<ModelField("control_val", "CharField", TRUE, FALSE)>>
                 \o UrlField(role)
                 \o <<RelationField("fk_field", "ForeignKey", RelatedModel),
                      ContainerField("embed", c, IntV(0))>>,
      many_to_many |-> <<RelationField("mfk_field", "ManyToManyField", RelatedModel)>>,
      related_objects |-> IF a THEN <<>>
                          ELSE <<[accessor_name |-> "r_set", many_to_many |-> FALSE,
                               related_model |-> RelatedModel]>>,
      attributes |-> {"objects", "prop"} \cup (IF role = "attribute" THEN {"url"} ELSE {})] :
     a \in BOOLEAN, role \in UrlRoles, c \in {"EmbeddedModelField", "ArrayModelField"}}

DispatchNames ==
    {"pk", "_id", "control_val", "url", "fk_field", "mfk_field", "embed", "r_set",
     "objects", "prop", "missing"}

\* Classes naming one field in Meta.fields
DispatchClasses ==
    {Klass(b, Meta(m, ListV(<<<<n>>>>), Null, d, e), <<>>, <<>>) :
        b \in {"DjongoModelSerializer", "EmbeddedModelSerializer"},
        m \in DispatchModels, n \in DispatchNames,
        d \in {Null, IntV(1)}, e \in {Null, IntV(0), IntV(1)}}

DispatchInit ==
    /\ opts = Null
    /\ field_info = Null
    /\ conv = Null
    /\ custom = Null
    /\ kwargs = Null
    /\ chain = <<>>
    /\ klass \in DispatchClasses
    /\ FieldsIdle

SpecDispatch == DispatchInit /\ [][FieldsNext]_vars

\* ---- serializers with fields = '__all__' and declared fields, some named
\* like a field of the model
OverridingNames == <<"extra", "control_val", "fk_field">>

DefaultsClasses ==
    {Klass(b, Meta(m, ALL_FIELDS, Null, Null, Null),
           SelectSeq(OverridingNames, LAMBDA n : n \in S), <<>>) :
        b \in {"DjongoModelSerializer", "EmbeddedModelSerializer"},
        m \in DispatchModels, S \in SUBSET Range(OverridingNames)}

DefaultsInit ==
    /\ opts = Null
    /\ field_info = Null
    /\ conv = Null
    /\ custom = Null
    /\ kwargs = Null
    /\ chain = <<>>
    /\ klass \in DefaultsClasses
    /\ FieldsIdle

SpecDefaults == DefaultsInit /\ [][FieldsNext]_vars

\* ---- serializers over graphs of models that relate to and embed each
\* other, themselves included
MaxDepth == 2

\* fk, embed and rvs are what the model's foreign key, embedded field and
\* reverse relation point to: model 1 or 2 of the graph, 0 for none
GraphModel(fk, embed, rvs) ==
    [t |-> "opts", abstract |-> FALSE,
     fields |-> <<ModelField("_id", "ObjectIdField", FALSE, TRUE),
                  ModelField("control_val", "CharField", TRUE, FALSE)>>
                \o (IF fk = 0 THEN <<>> ELSE <<RelationField("fk", "ForeignKey", RefV(fk))>>)
                \o (IF embed = 0 THEN <<>>
                    ELSE <<ContainerField("embed", "EmbeddedModelField", RefV(embed))>>),
     many_to_many |-> <<>>,
     related_objects |-> (IF rvs = 0 THEN <<>>
                          ELSE <<[accessor_name |-> "r_set", many_to_many |-> FALSE,
                                  related_model |-> RefV(rvs)]>>),
     attributes |-> {"objects"}]

Graphs ==
    LET models == {GraphModel(fk, embed, rvs) : fk \in 0..2, embed \in 0..2, rvs \in 0..2}
    IN  {<<a, b>> : a \in models, b \in models}

\* Classes over model 1 of the graph with fields = '__all__' and every depth
\* up to n and embed_depth up to n or above the default
GraphClasses(n) ==
    {Klass("DjongoModelSerializer", Meta(RefV(1), ALL_FIELDS, Null, d, e), <<>>, <<>>) :
        d \in {Null} \cup {IntV(i) : i \in 0..n},
        e \in {Null, IntV(DefaultEmbedDepth + 1)} \cup {IntV(i) : i \in 0..n}}

GraphInit ==
    /\ opts = Null
    /\ field_info = Null
    /\ conv = Null
    /\ custom = Null
    /\ kwargs = Null
    /\ chain \in Graphs
    /\ klass \in GraphClasses(MaxDepth)
    /\ FieldsIdle

SpecGraph == GraphInit /\ [][FieldsNext]_vars

\* ---- serializers with customization for nested fields
\* entries of Meta.fields, Meta.exclude and Meta.extra_kwargs: for the
\* embedded field `embed`, for a field whose name begins with embed, for a
\* plain field
CustomNames ==
    {<<"embed">>, <<"control_val">>, <<"embed", "control_val">>, <<"embed", "embed">>,
     <<"embed_extra", "control_val">>, <<"embed_extra">>}
KwargKeys == {<<"embed", "control_val">>, <<"embed_extra", "control_val">>, <<"control_val">>}
\* validate_embed__control_val, validate_embed_extra__control_val and
\* validate_control_val, by character
MethodNames ==
    {<<"validate", "_", "embed", "_", "_", "control_val">>,
     <<"validate", "_", "embed", "_extra", "_", "_", "control_val">>,
     <<"validate", "_", "control_val">>}

\* extra_kwargs = {key: {...}}, the i-th value being IntV(i)
KwargDicts ==
    {[i \in 1..Len(q) |-> [k |-> q[i], v |-> IntV(i)]] :
     q \in {r \in SeqsUpTo(KwargKeys, 2) : \A i, j \in 1..Len(r) : r[i] = r[j] => i = j}}

\* Classes over model 0 of the chain with Meta.fields or Meta.exclude
CustomizeClasses(n) ==
    {[Klass("DjongoModelSerializer",
            [Meta(IntV(0), fx[1], fx[2], Null, Null) EXCEPT !.extra_kwargs = kw],
            <<>>, <<>>) EXCEPT !.methods = ms] :
        fx \in {<<ALL_FIELDS, Null>>}
                \cup {<<ListV(q), Null>> : q \in SeqsUpTo(CustomNames, n)}
                \cup {<<Null, ListV(q)>> : q \in SeqsUpTo(CustomNames, n)},
        kw \in KwargDicts, ms \in SUBSET MethodNames}

CustomizeInit ==
    /\ opts = Null
    /\ field_info = Null
    /\ conv = Null
    /\ custom = Null
    /\ kwargs = Null
    /\ chain \in {<<FALSE>>, <<TRUE>>}
    /\ klass \in CustomizeClasses(MaxNames)
    /\ FieldsIdle

\* build_nested_embed_field from `customization = ...` on: the customization
\* of the parent for the field, applied to the class generated for it
Customize ==
    /\ custom = Null
    /\ \E field_name \in {"embed"} :
        custom' = [field_name |-> field_name,
                   val |-> get_nested_field_customization(klass, field_name),
                   serializer |->
                       apply_customization(
                           Klass("EmbeddedModelSerializer",
                                 Meta(IntV(1), ALL_FIELDS, Null, Null, IntV(EmbDepth(klass) - 1)),
                                 <<>>, <<>>),
                           get_nested_field_customization(klass, field_name))]
    /\ UNCHANGED <<ser, instance, store, last, chain, klass, names, resolved, opts,
                   field_info, conv, kwargs>>

CustomizeNext == Customize

SpecCustomize == CustomizeInit /\ [][CustomizeNext]_vars

\* ============================================================ model meta
MaxFields == 2

\* ---- model descriptions
\* the classes of the fields a model body declares
BodyFieldClasses ==
    {"IntegerField", "ForeignKey", "ArrayReferenceField", "EmbeddedModelField",
     "ArrayModelField"}
\* names of the fields a body declares, by position; a model has at most one
\* many-to-many field and one reverse relation
BodyNames == <<"a", "b", "c", "d">>
ManyNames == <<"m", "n", "o">>
AccessorNames == <<"r_set", "s_set", "u_set">>

\* opts.fields: the primary key of a concrete model (Django adds one when
\* the body declares none), then the body's fields
OptsFields(abstract, n) ==
    {(IF abstract THEN <<>> ELSE <<ModelField("_id", "ObjectIdField", FALSE, TRUE)>>)
        \o [i \in 1..Len(q) |-> ModelField(BodyNames[i], q[i][1], q[i][2], FALSE)] :
     q \in SeqsUpTo(BodyFieldClasses \X BOOLEAN, n)}
\* opts.many_to_many
OptsManyToMany(n) ==
    {[i \in 1..Len(q) |-> ModelField(ManyNames[i], "ManyToManyField", q[i], FALSE)] :
     q \in SeqsUpTo(BOOLEAN, n)}
\* opts.related_objects: the relations of other models that point here
OptsRelatedObjects(n) ==
    {[i \in 1..Len(q) |-> [accessor_name |-> AccessorNames[i],
                          many_to_many |-> q[i], related_model |-> Null]] :
     q \in SeqsUpTo(BOOLEAN, n)}

ModelOptions(n) ==
    UNION {{[t |-> "opts", abstract |-> a, fields |-> f, many_to_many |-> m,
             related_objects |-> r, attributes |-> {"objects"}] :
            f \in OptsFields(a, n), m \in OptsManyToMany(1),
            r \in OptsRelatedObjects(1)} : a \in BOOLEAN}

InfoInit ==
    /\ opts \in ModelOptions(MaxFields)
    /\ field_info = Null
    /\ conv = Null
    /\ custom = Null
    /\ kwargs = Null
    /\ chain = <<>>
    /\ klass = Null
    /\ FieldsIdle

\* meta_manager.get_field_info(model)
GetFieldInfo ==
    /\ field_info = Null
    /\ field_info' = FieldInfo(opts)
    /\ UNCHANGED <<ser, instance, store, last, chain, klass, names, resolved, opts, conv, custom, kwargs>>

InfoNext == GetFieldInfo

SpecInfo == InfoInit /\ [][InfoNext]_vars

\* ---- models whose reverse accessors may be named like a forward relation
\* (related_name chosen so; Django reports it in its system checks only)
RelationFieldClasses == {"IntegerField", "ForeignKey", "ArrayReferenceField"}
ClashingAccessorNames == {"a", "m", "r_set"}

ClashingRelatedObjects ==
    {[i \in 1..Len(q) |-> [accessor_name |-> q[i][1], many_to_many |-> q[i][2],
                          related_model |-> Null]] :
     q \in {r \in SeqsUpTo(ClashingAccessorNames \X BOOLEAN, 2) :
               \A i, j \in 1..Len(r) : r[i][1] = r[j][1] => i = j}}

ClashingOptions(n) ==
    {[t |-> "opts", abstract |-> FALSE,
      fields |-> <<ModelField("_id", "ObjectIdField", FALSE, TRUE)>>
                 \o [i \in 1..Len(q) |-> ModelField(BodyNames[i], q[i][1], q[i][2], FALSE)],
      many_to_many |-> m, related_objects |-> r, attributes |-> {"objects"}] :
        q \in SeqsUpTo(RelationFieldClasses \X BOOLEAN, n),
        m \in OptsManyToMany(1), r \in ClashingRelatedObjects}

MergeInit ==
    /\ opts \in ClashingOptions(MaxFields)
    /\ field_info = Null
    /\ conv = Null
    /\ custom = Null
    /\ kwargs = Null
    /\ chain = <<>>
    /\ klass = Null
    /\ FieldsIdle

SpecMerge == MergeInit /\ [][InfoNext]_vars

\* ======================================================== keyword arguments
\* kwarg_manager.get_nested_embed_kwargs. A dict of keywords is a function
\* from the keyword names.
\* The embedded model fields: verbose_name is "auto" when it is the one
\* Django derives from the field's name (needs_label is then false).
EmbedModelFields ==
    [verbose_name : {"auto", "custom"}, help_text : {"", "help"}, editable : BOOLEAN,
     has_default : BOOLEAN, blank : BOOLEAN, null : BOOLEAN,
     validators : {<<>>, <<"validator">>}]

\* field_mapping.needs_label(model_field, field_name)
needs_label(model_field) == model_field.verbose_name = "custom"

\* get_nested_embed_kwargs(field_name, embed_info)
get_nested_embed_kwargs(embed_info) ==
    LET model_field == embed_info.model_field
        k0 == IF embed_info.is_array THEN ("many" :> TRUE) ELSE <<>>
        k1 == IF model_field.verbose_name # "" /\ needs_label(model_field)
              THEN SetItem(k0, "label", model_field.verbose_name) ELSE k0
        k2 == IF model_field.help_text # ""
              THEN SetItem(k1, "help_test", model_field.help_text) ELSE k1
        k3 == IF model_field.has_default \/ model_field.blank \/ model_field.null
              THEN SetItem(k2, "required", FALSE) ELSE k2
        k4 == IF model_field.null THEN SetItem(k3, "allow_null", TRUE) ELSE k3
    IN  IF model_field = Null THEN k0
        ELSE IF ~model_field.editable THEN SetItem(k2, "read_only", TRUE)
        ELSE IF model_field.validators # <<>>
        THEN SetItem(k4, "validators", model_field.validators)
        ELSE k4

\* the keyword parameters of BaseSerializer.__init__ and Field.__init__
SerializerKeywords ==
    {"instance", "data", "many", "partial", "context", "read_only", "write_only",
     "required", "default", "initial", "source", "label", "help_text", "style",
     "error_messages", "validators", "allow_null", "allow_empty", "child"}

\* field_class(**field_kwargs) of get_fields
CanBuildField(field_kwargs) == DOMAIN field_kwargs \subseteq SerializerKeywords

KwargsInit ==
    /\ kwargs \in [embed_info : {EmbedInfoTuple(f, a) : f \in EmbedModelFields, a \in BOOLEAN},
                    val : {Null}, built : {FALSE}]
    /\ opts = Null
    /\ field_info = Null
    /\ conv = Null
    /\ custom = Null
    /\ chain = <<>>
    /\ klass = Null
    /\ FieldsIdle

\* build_nested_embed_field's last lines, then field_class(**field_kwargs)
GetNestedEmbedKwargs ==
    /\ kwargs.val = Null
    /\ kwargs' = [kwargs EXCEPT !.val = get_nested_embed_kwargs(kwargs.embed_info),
                                !.built = CanBuildField(
                                              get_nested_embed_kwargs(kwargs.embed_info))]
    /\ UNCHANGED <<ser, instance, store, last, chain, klass, names, resolved, opts,
                   field_info, conv, custom>>

KwargsNext == GetNestedEmbedKwargs

SpecKwargs == KwargsInit /\ [][KwargsNext]_vars

\* ================================================================ fields
\* The serializer fields of fields.py and their two conversions. A
\* conversion gives [err, val].
MaxOidLen == 2

\* A bson.ObjectId (its bytes) and a str (its characters).
OidV(bytes) == [t |-> "oid", bytes |-> bytes]
TextV(chars) == [t |-> "text", chars |-> chars]

Ok(val) == [err |-> NoErr, val |-> val]
Fail(type, msg, method) == [err |-> Err(type, msg, method, ""), val |-> Null]

HexDigits ==
    <<"0", "1", "2", "3", "4", "5", "6", "7", "8", "9", "a", "b", "c", "d", "e", "f">>

RECURSIVE Hex(_)
\* str(ObjectId): two hexadecimal digits a byte
Hex(bytes) ==
    IF bytes = <<>> THEN <<>>
    ELSE <<HexDigits[(Head(bytes) \div 16) + 1], HexDigits[(Head(bytes) % 16) + 1]>>
         \o Hex(Tail(bytes))

IsHexDigit(c) == \E i \in 1..16 : HexDigits[i] = c
HexValue(c) == (CHOOSE i \in 1..16 : HexDigits[i] = c) - 1

RECURSIVE FromHex(_)
\* bytes.fromhex(s), as ObjectId(s) applies it to a valid string
FromHex(chars) ==
    IF Len(chars) < 2 THEN <<>>
    ELSE <<16 * HexValue(chars[1]) + HexValue(chars[2])>>
         \o FromHex(SubSeq(chars, 3, Len(chars)))

\* ObjectId(text): InvalidId unless text is the hexadecimal form of an id
\* of n bytes
MakeObjectId(text, n) ==
    IF text.t = "text" /\ Len(text.chars) = 2 * n
       /\ \A i \in 1..Len(text.chars) : IsHexDigit(text.chars[i])
    THEN Ok(OidV(FromHex(text.chars)))
    ELSE Fail("InvalidId", "", "ObjectId")

\* str(data) / smart_text(value)
Str(v) == IF v.t = "oid" THEN TextV(Hex(v.bytes)) ELSE v

\* ObjectIdField.to_internal_value
ObjectIdField_to_internal_value(data, n) ==
    LET r == MakeObjectId(Str(data), n)
    IN  IF r.err.type = "InvalidId"
        THEN Fail("ValidationError", "not_valid_objectid", "to_internal_value")
        ELSE r

\* ObjectIdField.to_representation
ObjectIdField_to_representation(value) == Ok(Str(value))

\* getattr(value, name, None)
GetAttr_none(value, name) == Null
GetAttr(value, name) ==
    IF value.t = "obj" /\ name \in DOMAIN value.attrs THEN value.attrs[name] ELSE Null

\* the dict of every field of the container model, read off val
FieldData(model_container, val) ==
    MapV([name \in ModelFields(model_container) |-> GetAttr(val, name)])

\* EmbeddedModelField.to_internal_value
EmbeddedModelField_to_internal_value(field, data) ==
    IF data.t # "map" THEN Fail("ValidationError", "not_a_dict", "to_internal_value")
    ELSE IF ~CanConstruct(field.model_container, data)
    THEN Fail("ValidationError", "TypeError", "to_internal_value")
    ELSE IF ~CanAssignAll(field.model_container, data)
    THEN Fail("ValueError", "cannot_assign", "to_internal_value")
    ELSE Ok(Construct(field.model_container, data))

\* EmbeddedModelField.to_representation
EmbeddedModelField_to_representation(field, value) ==
    IF value.t # "obj" THEN Fail("ValidationError", "not_model", "to_representation")
    ELSE IF value.model # field.model_container
    THEN Fail("ValidationError", "wrong_model", "to_representation")
    ELSE Ok(FieldData(field.model_container, value))

\* Djongo's ArrayModelField.to_python(data): an instance of the container
\* is kept, a dict becomes an instance with the named fields set
ToPython(model_container, data) ==
    IF data.t = "null" THEN Ok(data)
    ELSE IF data.t # "list" THEN Fail("AssertionError", "", "to_python")
    ELSE IF \E i \in 1..Len(data.s) :
                /\ ~(data.s[i].t = "obj" /\ data.s[i].model = model_container)
                /\ data.s[i].t = "map"
                /\ ~(DOMAIN data.s[i].m \subseteq ModelFields(model_container))
    THEN Fail("FieldDoesNotExist", "", "to_python")
    ELSE IF \E i \in 1..Len(data.s) : data.s[i].t \notin {"obj", "map"}
    THEN Fail("TypeError", "", "to_python")
    ELSE Ok(ListV([i \in 1..Len(data.s) |->
                      IF data.s[i].t = "obj" THEN data.s[i]
                      ELSE Construct(model_container, data.s[i])]))

\* ArrayModelField.to_internal_value
ArrayModelField_to_internal_value(field, data) ==
    LET r == ToPython(field.model_container, data)
    IN  CASE r.err.type = "none" -> r
          [] r.err.type = "AssertionError" ->
                Fail("ValidationError", "not_a_list", "to_internal_value")
          [] r.err.type = "FieldDoesNotExist" ->
                Fail("ValidationError", "bad_field", "to_internal_value")
          [] OTHER -> Fail("ValidationError", "invalid", "to_internal_value")

\* ArrayModelField.to_representation
ArrayModelField_to_representation(field, value) ==
    IF value.t # "list" THEN Fail("ValidationError", "not_a_list", "to_representation")
    ELSE Ok(ListV([i \in 1..Len(value.s) |-> FieldData(field.model_container, value.s[i])]))

\* field.to_representation(value)
to_representation(field, value) ==
    CASE field.cls = "ObjectIdField" -> ObjectIdField_to_representation(value)
      [] field.cls = "EmbeddedModelField" -> EmbeddedModelField_to_representation(field, value)
      [] field.cls = "ArrayModelField" -> ArrayModelField_to_representation(field, value)

\* field.to_internal_value(data)
to_internal_value(field, data) ==
    CASE field.cls = "ObjectIdField" -> ObjectIdField_to_internal_value(data, field.oid_len)
      [] field.cls = "EmbeddedModelField" -> EmbeddedModelField_to_internal_value(field, data)
      [] field.cls = "ArrayModelField" -> ArrayModelField_to_internal_value(field, data)

\* ---- fields and values
SerializerField(cls, model_container, n) ==
    [cls |-> cls, model_container |-> model_container, oid_len |-> n]

\* byte values that use every kind of hexadecimal digit
OidBytes == {0, 10, 171, 255}
ObjectIds(n) == {OidV(b) : b \in [1..n -> OidBytes]}

\* instances of the embedded test models
EmbedInstances ==
    {ObjV("EmbedModel", a) : a \in [ModelFields("EmbedModel") -> Vals \cup {Null}]}
ContainerInstances ==
    {ObjV("ContainerModel", [control_val |-> c, embed_field |-> x]) :
     c \in Vals, x \in EmbedInstances \cup {Null}}

\* a field with a value handed to it: the values it represents, and some
\* it refuses
Conversions(n, len) ==
    {[field |-> SerializerField("ObjectIdField", "", n), value |-> x] : x \in ObjectIds(n)}
    \cup {[field |-> SerializerField("EmbeddedModelField", "EmbedModel", n), value |-> x] :
          x \in EmbedInstances \cup {Null, IntV(1), ObjV("ItemModel", [int_field |-> IntV(1)])}}
    \cup {[field |-> SerializerField("EmbeddedModelField", "ContainerModel", n), value |-> x] :
          x \in ContainerInstances}
    \cup {[field |-> SerializerField("ArrayModelField", "EmbedModel", n), value |-> x] :
          x \in {ListV(q) : q \in SeqsUpTo(EmbedInstances, len)} \cup {Null, IntV(1)}}

ConvInit ==
    /\ \E c \in Conversions(MaxOidLen, MaxLen) :
            conv = [field |-> c.field, value |-> c.value, rep |-> Null, back |-> Null]
    /\ custom = Null
    /\ kwargs = Null
    /\ opts = Null
    /\ field_info = Null
    /\ chain = <<>>
    /\ klass = Null
    /\ FieldsIdle

\* field.to_representation(value)
ToRepresentation ==
    /\ conv.rep = Null
    /\ conv' = [conv EXCEPT !.rep = to_representation(conv.field, conv.value)]
    /\ UNCHANGED <<ser, instance, store, last, chain, klass, names, resolved, opts, field_info, custom, kwargs>>

\* field.to_internal_value(data) on what to_representation returned
ToInternalValue ==
    /\ conv.rep # Null
    /\ conv.rep.err.type = "none"
    /\ conv.back = Null
    /\ conv' = [conv EXCEPT !.back = to_internal_value(conv.field, conv.rep.val)]
    /\ UNCHANGED <<ser, instance, store, last, chain, klass, names, resolved, opts, field_info, custom, kwargs>>

ConvNext == ToRepresentation \/ ToInternalValue

SpecConv == ConvInit /\ [][ConvNext]_vars

\* ------------------------------------------------- reference object graphs
IsEmbKey(s, k) == k \in FieldNames(s) /\ IsEmbeddedSerializer(SerField(s, k))
IsArrKey(s, k) ==
    /\ k \in FieldNames(s)
    /\ IsListSerializer(SerField(s, k))
    /\ SerClass(SerField(s, k).child) = "EmbeddedModelSerializer"

RECURSIVE Graph(_, _)
\* The attribute value the payload value v stands for under key k of s.
Expected(s, k, v) ==
    IF IsEmbKey(s, k) /\ v.t = "map" THEN Graph(SerField(s, k).child, v.m)
    ELSE IF IsArrKey(s, k) /\ v.t = "list"
    THEN ListV([i \in 1..Len(v.s) |-> Graph(SerField(s, k).child, v.s[i].m)])
    ELSE v

\* The object of s's model that the payload mapping m describes.
Graph(s, m) ==
    ObjV(SerModel(s), [a \in ModelFields(SerModel(s)) |->
            IF a \in DOMAIN m THEN Expected(s, a, m[a]) ELSE ModelDefault(SerModel(s), a)])

RECURSIVE PartialOk(_, _, _, _)
\* new is old with exactly the payload m applied, level by level.
PartialOk(s, old, m, new) ==
    /\ new.t = "obj" /\ old.t = "obj"
    /\ new.model = old.model
    /\ DOMAIN new.attrs = DOMAIN old.attrs
    /\ \A a \in DOMAIN old.attrs :
          IF a \notin DOMAIN m THEN new.attrs[a] = old.attrs[a]
          ELSE IF IsEmbKey(s, a) /\ m[a].t = "map"
          THEN PartialOk(SerField(s, a).child, old.attrs[a], m[a].m, new.attrs[a])
          ELSE new.attrs[a] = Expected(s, a, m[a])

RECURSIVE EmbeddedNonNull(_, _, _)
\* Every embedded object of old that the payload m reaches is non-null.
EmbeddedNonNull(s, old, m) ==
    \A a \in DOMAIN m :
        (IsEmbKey(s, a) /\ m[a].t = "map") =>
            /\ old.attrs[a].t = "obj"
            /\ EmbeddedNonNull(SerField(s, a).child, old.attrs[a], m[a].m)

RECURSIVE MapDepth(_, _)
\* How many levels of embedded documents the payload m nests.
MapDepth(s, m) ==
    IF \E a \in DOMAIN m : IsEmbKey(s, a) /\ m[a].t = "map"
    THEN 1 + MapDepth(SerField(s, CHOOSE a \in DOMAIN m : IsEmbKey(s, a) /\ m[a].t = "map").child,
                      m[CHOOSE a \in DOMAIN m : IsEmbKey(s, a) /\ m[a].t = "map"].m)
    ELSE 0

\* The payload m holds list or dict data under a writable nested serializer of
\* s for a non-embedded (relational) model.
RelationalWrite(s, m) ==
    \E f \in FieldNames(s) :
        /\ ~SerField(s, f).read_only
        /\ IsBaseSerializer(SerField(s, f))
        /\ SerClass(SerField(s, f).child) = "DjongoModelSerializer"
        /\ SerField(s, f).source[1] \in DOMAIN m
        /\ IsListOrDict(m[SerField(s, f).source[1]])

\* The payload m holds list or dict data for a dotted-source field of s.
DottedWrite(s, m) ==
    \E f \in FieldNames(s) :
        IsDotted(SerField(s, f)) /\ f \in DOMAIN m /\ IsListOrDict(m[f])

RECURSIVE Buildable(_, _)
\* The payload m asks only for what the serializer s builds: a mapping under
\* every embedded key, a list of mappings under every array key, and no list
\* or dict for a relational or dotted-source field, at every level.
Buildable(s, m) ==
    /\ ~RelationalWrite(s, m)
    /\ ~DottedWrite(s, m)
    /\ \A k \in DOMAIN m :
          /\ IsEmbKey(s, k) => (m[k].t = "map" /\ Buildable(SerField(s, k).child, m[k].m))
          /\ IsArrKey(s, k) =>
                /\ m[k].t = "list"
                /\ \A i \in 1..Len(m[k].s) : Buildable(SerField(s, k).child, m[k].s[i].m)

Writes(log) == {i \in 1..Len(log) : log[i].e = "write"}
Constructs(log, s) == {i \in 1..Len(log) : log[i].e = "construct" /\ log[i].ser = s}
Returned == last.method # "none" /\ last.err.type = "none"
Raised == last.method # "none" /\ last.err.type # "none"

\* -------------------------------------------------------------- properties

\* C3: a partial update returns when its payload is buildable, and one that
\* returns leaves every attribute whose key the
\* payload lacks at its prior value, at the root and inside every embedded
\* object the payload reaches, and sets every attribute whose key is present
\* to the payload's value (existing embedded objects being non-null).
C3_PartialUpdateIsolation ==
    (last.method = "update" /\ EmbeddedNonNull(ser, last.before, last.vd.m)) =>
        /\ Buildable(ser, last.vd.m) => last.err.type = "none"
        /\ last.err.type = "none" => PartialOk(ser, last.before, last.vd.m, instance)

\* A two-level partial update that touched one attribute of the innermost
\* object and left its sibling and the outer attributes alone.
C3_Witness ==
    /\ ser = "DeepSer"
    /\ last.method = "update"
    /\ last.err.type = "none"
    /\ last.vd = MapV("deep_embed" :> MapV("embed_field" :> MapV("int_field" :> IntV(2))))
    /\ last.before.attrs["deep_embed"].t = "obj"
    /\ last.before.attrs["deep_embed"].attrs["embed_field"].t = "obj"
    /\ last.before.attrs["deep_embed"].attrs["embed_field"].attrs["int_field"] = IntV(1)
    /\ last.before.attrs["deep_embed"].attrs["embed_field"].attrs["char_field"] = IntV(1)
    /\ last.before.attrs["deep_embed"].attrs["control_val"] = IntV(2)
    /\ instance.attrs["deep_embed"].attrs["embed_field"].attrs["int_field"] = IntV(2)

\* C4: a create or update on a root serializer that returns has written to
\* the store exactly once (one that raises, not at all); the write is the
\* root's, comes after every nested object was built, and no nested
\* EmbeddedModelSerializer writes.
C4_SingleRootWrite ==
    /\ Returned => Cardinality(Writes(last.log)) = 1
    /\ Raised => Writes(last.log) = {}
    /\ \A i \in Writes(last.log) :
          /\ i = Len(last.log)
          /\ last.log[i].ser = ser
          /\ SerClass(last.log[i].ser) = "DjongoModelSerializer"
    /\ Returned => store = instance

\* A save that built embedded objects two levels deep and then wrote once.
C4_Witness ==
    /\ ser = "DeepSer"
    /\ Returned
    /\ MapDepth(ser, last.vd.m) = 2
    /\ Constructs(last.log, "EmbedSer") # {}
    /\ Cardinality(Writes(last.log)) = 1

\* C5: a create returns when its payload is buildable, and one that returns
\* gives the object graph of its payload: the root
\* object, constructed in one call, whose attribute for each payload key is
\* the payload value, an embedded key holding the embedded model instance
\* built recursively from the nested payload.
C5_CreateBuildsGraph ==
    last.method = "create" =>
        /\ Buildable(ser, last.vd.m) => last.err.type = "none"
        /\ last.err.type = "none" =>
              /\ last.res = Graph(ser, last.vd.m)
              /\ instance = last.res
              /\ Cardinality(Constructs(last.log, ser)) = 1

\* {deep_embed: {embed_field: {int_field: 1, char_field: 2}}} created.
C5_Witness ==
    /\ ser = "DeepSer"
    /\ last.method = "create"
    /\ last.err.type = "none"
    /\ last.vd = MapV("deep_embed" :>
                   MapV("embed_field" :> MapV("int_field" :> IntV(1) @@ "char_field" :> IntV(2))))
    /\ instance.attrs["deep_embed"].attrs["embed_field"] =
          ObjV("EmbedModel", "int_field" :> IntV(1) @@ "char_field" :> IntV(2))

\* C9: on create and on update, an array-of-embedded-documents attribute
\* becomes the list of the objects built from the payload's elements, one per
\* element and in the payload's order; an update replaces the prior list
\* whatever its length.
C9_ArrayOrderAndReplacement ==
    Returned =>
        \A k \in DOMAIN last.vd.m :
            (IsArrKey(ser, k) /\ last.vd.m[k].t = "list") =>
                /\ instance.attrs[k].t = "list"
                /\ Len(instance.attrs[k].s) = Len(last.vd.m[k].s)
                /\ \A i \in 1..Len(last.vd.m[k].s) :
                      instance.attrs[k].s[i] =
                          Graph(SerField(ser, k).child, last.vd.m[k].s[i].m)

\* An update that replaced a one-element list by two different elements.
C9_Witness ==
    /\ ser = "ArraySer"
    /\ last.method = "update"
    /\ last.err.type = "none"
    /\ last.before.attrs["embed_list"].t = "list"
    /\ Len(last.before.attrs["embed_list"].s) = 1
    /\ "embed_list" \in DOMAIN last.vd.m
    /\ last.vd.m["embed_list"] =
          ListV(<<MapV("int_field" :> IntV(1)), MapV("int_field" :> IntV(2))>>)
    /\ instance.attrs["embed_list"].s[2].attrs["int_field"] = IntV(2)

\* r is the nested-write configuration error naming the method and the class,
\* raised before anything was built or written.
IsGuardError(r, method, s) ==
    /\ r.err.type = "AssertionError"
    /\ r.err.msg \in {"nested_write", "dotted_source"}
    /\ r.err.method = method
    /\ r.err.ser = s
    /\ r.log = <<>>

\* The call the root's build_instance_data makes for the embedded key k.
NestedCall(k) ==
    IF last.method = "update" /\ last.before.attrs[k] # Null
    THEN [method |-> "update",
          r |-> update(SerField(ser, k).child, last.before.attrs[k], last.vd.m[k])]
    ELSE [method |-> "create", r |-> create(SerField(ser, k).child, last.vd.m[k])]

\* C6: every create and every update, of a DjongoModelSerializer and of an
\* EmbeddedModelSerializer alike, given list or dict data for a writable
\* relational sub-serializer (or for a dotted-source field), raises the
\* nested-write configuration error naming the method and the class before
\* anything is built or written.
C6_NestedWriteGuard ==
    last.method # "none" =>
        /\ (RelationalWrite(ser, last.vd.m) \/ DottedWrite(ser, last.vd.m)) =>
              IsGuardError([err |-> last.err, log |-> last.log], last.method, ser)
        /\ \A k \in DOMAIN last.vd.m :
              (/\ IsEmbKey(ser, k)
               /\ last.vd.m[k].t = "map"
               /\ RelationalWrite(SerField(ser, k).child, last.vd.m[k].m)) =>
                  IsGuardError(NestedCall(k).r, NestedCall(k).method, SerField(ser, k).child)

\* Nothing in the payload m but the null asks for an unsupported write.
OtherwiseSupported(s, m) ==
    /\ ~RelationalWrite(s, m)
    /\ ~DottedWrite(s, m)
    /\ \A k \in DOMAIN m :
          (IsEmbKey(s, k) /\ m[k].t = "map") =>
              /\ ~RelationalWrite(SerField(s, k).child, m[k].m)
              /\ \A j \in DOMAIN m[k].m : m[k].m[j] # Null

\* C8: a create or update whose payload holds null under an embedded-document
\* field or an array-of-embedded-documents field succeeds, the attribute is
\* null afterwards and the other payload keys are applied.
C8_NullWritable ==
    (/\ last.method # "none"
     /\ OtherwiseSupported(ser, last.vd.m)
     /\ \E k \in DOMAIN last.vd.m :
            (IsEmbKey(ser, k) \/ IsArrKey(ser, k)) /\ last.vd.m[k] = Null)
        => /\ last.err.type = "none"
           /\ \A k \in DOMAIN last.vd.m :
                 (last.vd.m[k].t \in {"null", "int"}) => instance.attrs[k] = last.vd.m[k]

\* C1: whenever Meta sets both `fields` and `exclude`, whatever the two
\* values, resolving the fields fails with a configuration error, and no
\* field was constructed.
C1_FieldsExcludeExclusive ==
    (/\ resolved # Null
     /\ klass.meta # Null
     /\ klass.meta.fields # Null
     /\ klass.meta.exclude # Null)
        => /\ names.err.type # "none"
           /\ resolved.err.type # "none"
           /\ resolved.built = 0
           /\ resolved.val = <<>>

\* The embedded field of a resolved serializer
EmbedField(t) == t.val[CHOOSE j \in 1..Len(t.val) : t.val[j].name = "embed"].field

RECURSIVE DepthOk(_, _, _)
\* t holds the fields of the serializer of model i - 1, which has embed depth
\* n: below it are exactly n levels of expanded embedded serializers, each with
\* an embed depth one less than its parent's, then one terminal read-only
\* field of the array or the single-document class.
DepthOk(t, i, n) ==
    /\ t.err.type = "none"
    /\ Cardinality({j \in 1..Len(t.val) : t.val[j].name = "embed"}) = 1
    /\ \A j \in 1..Len(t.val) : t.val[j].name # "embed" => t.val[j].field.nested = Null
    /\ IF n = 0
       THEN /\ EmbedField(t).cls = IF chain[i] THEN "ArrayModelField" ELSE "EmbeddedModelField"
            /\ EmbedField(t).read_only
            /\ EmbedField(t).nested = Null
            /\ EmbedField(t).sub = Null
       ELSE /\ EmbedField(t).cls = "EmbeddedSerializer"
            /\ EmbedField(t).many = chain[i]
            /\ EmbedField(t).nested # Null
            /\ EmbedField(t).nested.base = "EmbeddedModelSerializer"
            /\ EmbedField(t).nested.meta.model = IntV(i)
            /\ EmbedField(t).nested.meta.embed_depth = IntV(n - 1)
            /\ EmbedField(t).sub # Null
            /\ DepthOk(EmbedField(t).sub, i + 1, n - 1)

\* The class resolved is one get_fields accepts, with embed_depth = n below
\* the number of models embedded under its model.
Truncating ==
    /\ klass.meta # Null
    /\ klass.meta.model # Null
    /\ klass.meta.fields = ALL_FIELDS
    /\ klass.meta.exclude = Null
    /\ RelDepth(klass) \in 0..MaxRelDepth
    /\ klass.meta.embed_depth # Null
    /\ klass.meta.embed_depth.i >= 0
    /\ klass.meta.embed_depth.i < Len(chain)

\* C2: for models embedded k levels deep and a root serializer with
\* embed_depth = n < k, the field tree has exactly n levels of expanded
\* embedded serializers, level i carrying embed_depth n - i, and at level
\* n + 1 one terminal read-only field, of the array class when the model field
\* is an array and of the single-document class otherwise; with n = 0 the
\* root's embedded field is the terminal one.
C2_DepthTruncation ==
    (resolved # Null /\ Truncating) => DepthOk(resolved, 1, klass.meta.embed_depth.i)

\* Three models deep, embed_depth = 1: one expanded level whose embedded field
\* is the terminal array field.
C2_Witness ==
    /\ resolved # Null
    /\ chain = <<FALSE, TRUE, FALSE>>
    /\ Truncating
    /\ klass.meta.embed_depth = IntV(1)
    /\ EmbedField(resolved).cls = "EmbeddedSerializer"
    /\ EmbedField(EmbedField(resolved).sub).cls = "ArrayModelField"
    /\ EmbedField(EmbedField(resolved).sub).read_only

\* C10: with an explicit list in Meta.fields (and no exclude), get_field_names
\* raises a configuration error if and only if a field declared on the class
\* itself is missing from the list; a field only inherited from the parent
\* may be left out.
C10_DeclaredFieldsIncluded ==
    (/\ names # Null
     /\ klass.meta # Null
     /\ klass.meta.fields.t = "list"
     /\ klass.meta.exclude = Null)
        => (names.err.type # "none"
               <=> \E n \in Range(klass.own) : <<n>> \notin Range(klass.meta.fields.s))

\* ---------------------------------------------------------------- C11
\* The attributes of the model that get_field_info may report: the fields
\* and many-to-many fields with serialize set (Django clears it on the
\* primary key) and the accessors of the reverse relations.
SerializableNames(o) ==
    {o.fields[i].name : i \in {j \in 1..Len(o.fields) : o.fields[j].serialize}}
    \cup {o.many_to_many[i].name :
          i \in {j \in 1..Len(o.many_to_many) : o.many_to_many[j].serialize}}
    \cup {o.related_objects[i].accessor_name : i \in 1..Len(o.related_objects)}

\* the four primary maps of a FieldInfo
PrimaryMaps(fi) == <<fi.fields, fi.forward_relations, fi.reverse_relations, fi.embedded>>

SameItems(a, b) ==
    /\ Range(Keys(a)) = Range(Keys(b))
    /\ \A n \in Range(Keys(a)) : DictGet(a, n) = DictGet(b, n)

\* what the primary-key half asks of a FieldInfo with a pk
PkMerged(fi) ==
    /\ ~HasKey(fi.fields, fi.pk.name)
    /\ SameItems(fi.fields_and_pk,
                 DictUpdate(<<[k |-> "pk", v |-> fi.pk], [k |-> fi.pk.name, v |-> fi.pk]>>,
                            fi.fields))

\* what the other half asks of a FieldInfo without a pk
NoPkMerged(fi) ==
    /\ SameItems(fi.fields_and_pk, fi.fields)
    /\ \A i \in 1..Len(fi.fields_and_pk) : fi.fields_and_pk[i].v.t = "field"

\* C12: with a primary key, the key is not in fields and fields_and_pk is
\* fields plus the pk under its name and under 'pk'; without one (abstract
\* model) fields_and_pk holds exactly the plain fields and every value of
\* it is a field.
C12_PkInFieldsAndPk ==
    field_info # Null =>
        IF field_info.pk # Null THEN PkMerged(field_info) ELSE NoPkMerged(field_info)

\* ---------------------------------------------------------------- C13
\* the value is one the field represents: to_representation returned
Representable == conv # Null /\ conv.rep # Null /\ conv.rep.err.type = "none"

\* C13: for an ObjectIdField, an EmbeddedModelField and an ArrayModelField,
\* to_internal_value(to_representation(x)) returns a value equal to x
\* (attribute by attribute, element by element) for every x the field
\* represents.
C13_FieldRoundTrip ==
    (Representable /\ conv.back # Null) =>
        /\ conv.back.err.type = "none"
        /\ conv.back.val = conv.value

\* an array of two different documents went through both conversions
C13_Witness ==
    /\ Representable
    /\ conv.back # Null
    /\ conv.field.cls = "ArrayModelField"
    /\ Len(conv.value.s) = 2
    /\ conv.value.s[1] # conv.value.s[2]
    /\ conv.rep.val # conv.value

\* ---------------------------------------------------------------- C14
RECURSIVE FailurePoint(_, _)
\* The serializer whose constructor call is the first to fail when s
\* creates from the payload m: the nested objects are built before their
\* container ("" when every constructor accepts its arguments).
FailurePoint(s, m) ==
    LET nested == {k \in DOMAIN m : /\ k \in FieldNames(s)
                                    /\ IsEmbeddedSerializer(SerField(s, k))
                                    /\ m[k].t = "map"
                                    /\ FailurePoint(SerField(s, k).child, m[k].m) # ""}
    IN  IF nested # {}
        THEN FailurePoint(SerField(s, CHOOSE k \in nested : TRUE).child,
                          m[CHOOSE k \in nested : TRUE].m)
        ELSE IF DOMAIN m \subseteq ModelFields(SerModel(s)) THEN "" ELSE s

\* the last call was a create whose payload some constructor refuses
ConstructorFailed ==
    /\ last.method = "create"
    /\ last.vd.t = "map"
    /\ FailurePoint(ser, last.vd.m) # ""

\* C14: when a constructor refuses its arguments during create, at the
\* root or at any embedded level, the caller gets one TypeError, wrapped
\* exactly once, that names the serializer (and so the model) at the point
\* of failure, and nothing is written.
C14_ConstructorErrorWrappedOnce ==
    ConstructorFailed =>
        /\ last.err.type = "TypeError"
        /\ last.err.wraps = 1
        /\ last.err.ser = FailurePoint(ser, last.vd.m)
        /\ ~Wrote(last.log)
        /\ store = last.before

\* ---------------------------------------------------------------- C15
\* the configurations get_fields is to refuse
Misconfigured(g, k) ==
    \/ k.meta = Null
    \/ k.meta.model = Null
    \/ is_model_abstract(g, k.meta.model) /\ k.base = "DjongoModelSerializer"
    \/ k.meta.depth # Null /\ (k.meta.depth.i < 0 \/ k.meta.depth.i > 10)
    \/ k.meta.embed_depth # Null /\ k.meta.embed_depth.i < 0
    \/ k.meta.fields = Null /\ k.meta.exclude = Null

\* C15: get_fields on a serializer without Meta, without Meta.model, a
\* DjongoModelSerializer on an abstract model, with depth outside 0..10,
\* with a negative embed_depth or with neither fields nor exclude raises a
\* configuration error (AssertionError or ValueError) and builds no field.
C15_ConfigurationCheckedFirst ==
    (resolved # Null /\ Misconfigured(chain, klass)) =>
        /\ resolved.err.type \in {"AssertionError", "ValueError"}
        /\ resolved.built = 0
        /\ resolved.val = <<>>

\* get_fields refused a serializer over a concrete model, with valid
\* depths, whose Meta names neither fields nor exclude
C15_Witness ==
    /\ resolved # Null
    /\ klass.meta # Null
    /\ klass.meta.model # Null
    /\ klass.meta.fields = Null
    /\ klass.meta.exclude = Null
    /\ Len(chain) > 0
    /\ resolved.err.type = "AssertionError"
    /\ resolved.built = 0

\* ---------------------------------------------------------------- C16
RECURSIVE UpdatedOrCreated(_, _, _, _)
\* new is what the payload m makes of old under the serializer s: old
\* updated in place, key by key, when it is an object, and the object m
\* describes, created fresh, when old is null.
UpdatedOrCreated(s, old, m, new) ==
    IF old.t = "obj"
    THEN /\ new.t = "obj"
         /\ new.model = old.model
         /\ \A a \in DOMAIN m :
                IF IsEmbKey(s, a) /\ m[a].t = "map"
                THEN UpdatedOrCreated(SerField(s, a).child, old.attrs[a], m[a].m, new.attrs[a])
                ELSE new.attrs[a] = Expected(s, a, m[a])
    ELSE new = Graph(s, m)

\* C16: an update with a buildable payload completes, and under every
\* embedded key of the payload the instance then holds the payload's values:
\* the existing embedded object updated in place, or a fresh object where
\* the instance held null.
C16_UpdateOrCreatePerNestedObject ==
    (last.method = "update" /\ Buildable(ser, last.vd.m)) =>
        /\ last.err.type = "none"
        /\ UpdatedOrCreated(ser, last.before, last.vd.m, instance)

\* ---------------------------------------------------------------- C17
\* the cases of build_field that match the name, by number
MatchingCases(o, fi, field_name) ==
    {c \in 1..6 :
        CASE c = 1 -> HasKey(fi.fields_and_pk, field_name)
          [] c = 2 -> HasKey(fi.relations, field_name)
          [] c = 3 -> HasKey(fi.embedded, field_name)
          [] c = 4 -> HasAttr(o, field_name)
          [] c = 5 -> field_name = URL_FIELD_NAME
          [] c = 6 -> TRUE}

\* the case whose builder produced the result r of get_fields for one name
CaseTaken(r) ==
    IF r.err.type # "none"
    THEN IF r.err.method = "build_standard_field" THEN 1 ELSE 6
    ELSE CASE r.val[1].field.cls = "ModelField" -> 1
           [] r.val[1].field.cls \in {"RelatedField", "NestedRelationSerializer"} -> 2
           [] r.val[1].field.cls \in {"EmbeddedModelField", "ArrayModelField",
                                      "EmbeddedSerializer"} -> 3
           [] r.val[1].field.cls = "ReadOnlyField" -> 4
           [] r.val[1].field.cls = "HyperlinkedIdentityField" -> 5

\* get_fields got as far as build_field for the one name of Meta.fields
Dispatched ==
    /\ resolved # Null
    /\ klass.meta.fields.t = "list"
    /\ Len(klass.meta.fields.s) = 1
    /\ ~Misconfigured(chain, klass)

\* C17: build_field takes the first case that matches the name, in the
\* order fields_and_pk, relations, embedded, model attribute, URL field
\* name, unknown; a relation gives the flat field exactly at depth 0 and an
\* embedded field the terminal field exactly at embed depth 0.
C17_BuildFieldPriority ==
    Dispatched =>
        LET o == ModelOpts(chain, klass.meta.model)
            name == klass.meta.fields.s[1][1]
            first == CHOOSE c \in MatchingCases(o, FieldInfo(o), name) :
                        \A d \in MatchingCases(o, FieldInfo(o), name) : c <= d
        IN  /\ CaseTaken(resolved) = first
            /\ (first = 2 /\ resolved.err.type = "none") =>
                    (resolved.val[1].field.cls = "RelatedField" <=> RelDepth(klass) = 0)
            /\ (first = 3 /\ resolved.err.type = "none") =>
                    (resolved.val[1].field.cls \in {"EmbeddedModelField", "ArrayModelField"}
                        <=> EmbDepth(klass) = 0)

\* the model has a foreign key named like the URL field, which is also a
\* class attribute: the relation case took it
C17_Witness ==
    /\ Dispatched
    /\ klass.meta.fields.s[1][1] = URL_FIELD_NAME
    /\ Cardinality(MatchingCases(ModelOpts(chain, klass.meta.model),
                                 FieldInfo(ModelOpts(chain, klass.meta.model)),
                                 URL_FIELD_NAME)) = 4
    /\ resolved.err.type = "none"
    /\ resolved.val[1].field.cls = "NestedRelationSerializer"

\* ---------------------------------------------------------------- C18
\* the names of the model fields q, in order
NamesOf(q) == [i \in 1..Len(q) |-> <<q[i].name>>]

\* primary key (unless the serializer is an EmbeddedModelSerializer), the
\* declared fields, the plain fields, the forward relations, the embedded
\* fields
DefaultOrder(k, o) ==
    (IF k.base = "EmbeddedModelSerializer" THEN <<>>
     ELSE NamesOf(SelectSeq(o.fields, LAMBDA f : f.primary_key)))
    \o [i \in 1..Len(DeclaredFields(k)) |-> <<DeclaredFields(k)[i]>>]
    \o NamesOf(SelectSeq(o.fields, LAMBDA f : f.serialize /\ ~HasRemoteField(f)
                                                  /\ ~HasModelContainer(f)))
    \o NamesOf(SelectSeq(o.fields, LAMBDA f : f.serialize /\ HasRemoteField(f)))
    \o NamesOf(SelectSeq(o.many_to_many, LAMBDA f : f.serialize))
    \o NamesOf(SelectSeq(o.fields, LAMBDA f : f.serialize /\ HasModelContainer(f)))

NoDuplicates(q) == \A i, j \in 1..Len(q) : q[i] = q[j] => i = j

\* get_field_names returned the default names for fields = '__all__'
DefaultsReturned ==
    /\ names # Null
    /\ names.err.type = "none"
    /\ klass.meta # Null
    /\ klass.meta.model # Null
    /\ klass.meta.fields = ALL_FIELDS

\* C18: with fields = '__all__' the names are the primary key, the
\* declared fields, the plain fields, the forward relations and the
\* embedded fields, in that order, without the primary key for an
\* EmbeddedModelSerializer and without reverse relations, and no name
\* occurs twice, also when a declared field is named like a model field.
C18_DefaultFieldNames ==
    DefaultsReturned =>
        /\ names.val = DefaultOrder(klass, ModelOpts(chain, klass.meta.model))
        /\ NoDuplicates(names.val)

\* ---------------------------------------------------------------- C19
\* the entries of q for the field f: those whose first dot-separated part
\* is f, without that part, in the order of q
EntriesFor(q, f) ==
    LET mine == SelectSeq(q, LAMBDA n : Len(n) > 1 /\ n[1] = f)
    IN [i \in 1..Len(mine) |-> Tail(mine[i])]

\* likewise for the items of the dict d
ItemsFor(d, f) ==
    LET mine == SelectSeq(d, LAMBDA it : Len(it.k) > 1 /\ it.k[1] = f)
    IN [i \in 1..Len(mine) |-> [k |-> Tail(mine[i].k), v |-> mine[i].v]]

\* C19: the customization for the nested field f holds, as the include (or
\* exclude) list, the parent's entries that start with 'f.' without that
\* prefix, in the parent's order, and no other; '__all__' is handed down
\* as it is; the extra kwargs are the parent's items keyed 'f.<rest>',
\* keyed by <rest>.
C19_CustomizationByPrefix ==
    custom # Null =>
        /\ custom.val.fields =
                (IF klass.meta.fields = Null THEN Null
                 ELSE IF klass.meta.fields = ALL_FIELDS THEN ALL_FIELDS
                 ELSE ListV(EntriesFor(klass.meta.fields.s, custom.field_name)))
        /\ custom.val.exclude =
                (IF klass.meta.fields # Null THEN Null
                 ELSE ListV(EntriesFor(klass.meta.exclude.s, custom.field_name)))
        /\ custom.val.extra_kwargs = ItemsFor(klass.meta.extra_kwargs, custom.field_name)

\* the parent lists embed.control_val and embed_extra.control_val, and
\* gives extra kwargs for both: only the former reached the nested field
C19_Witness ==
    /\ custom # Null
    /\ klass.meta.fields # Null
    /\ klass.meta.fields # ALL_FIELDS
    /\ <<"embed", "control_val">> \in Range(klass.meta.fields.s)
    /\ <<"embed_extra", "control_val">> \in Range(klass.meta.fields.s)
    /\ custom.val.fields = ListV(<<<<"control_val">>>>)
    /\ Len(klass.meta.extra_kwargs) = 2
    /\ Len(custom.val.extra_kwargs) = 1

\* ---------------------------------------------------------------- C20
\* the characters of validate_<name>
ValidatorName(rest) == <<"validate", "_">> \o rest

\* the methods of the parent named validate_<f>__<rest>, by <rest>
NestedValidators(methods, f) ==
    {m \in methods : /\ Len(m) > Len(ValidLeadStr(f))
                     /\ SubSeq(m, 1, Len(ValidLeadStr(f))) = ValidLeadStr(f)}

\* C20: the class generated for the nested field f has, for every method
\* validate_<f>__<rest> of the parent, the attribute validate_<rest>, and
\* no attribute from any other method of the parent.
C20_NestedValidatorRenaming ==
    custom # Null =>
        custom.serializer.methods =
            {ValidatorName(After(m, ValidLeadStr(custom.field_name))) :
             m \in NestedValidators(klass.methods, custom.field_name)}

\* ---------------------------------------------------------------- C21
\* C21: the class generated for a nested embedded field never has both
\* Meta.fields and Meta.exclude set once the parent's customization is
\* applied, and its own get_field_names does not fail the assertion that
\* refuses both options together.
C21_NestedMetaExclusive ==
    custom # Null =>
        /\ ~(custom.serializer.meta.fields # Null /\ custom.serializer.meta.exclude # Null)
        /\ get_field_names(custom.serializer, <<>>,
                           get_field_info(chain, custom.serializer.meta.model)).err.msg
               # "fields_and_exclude"

\* ---------------------------------------------------------------- C22
\* the names of the fields the serializer class k exposes
Exposed(g, k) == {f.name : f \in Range(get_fields(g, k).val)}

\* the class build_nested_embed_field generates before any customization
Uncustomized(serializer) ==
    [serializer EXCEPT !.meta.fields = ALL_FIELDS, !.meta.exclude = Null,
                       !.meta.extra_kwargs = <<>>, !.methods = {}]

\* C22: every field the generated nested serializer exposes without the
\* parent's customization, and that the propagated exclude list does not
\* name, is exposed by the customized nested serializer too.
C22_CustomizationAdditive ==
    custom # Null =>
        \A n \in Exposed(chain, Uncustomized(custom.serializer)) :
            \/ custom.val.exclude # Null /\ <<n>> \in Range(custom.val.exclude.s)
            \/ n \in Exposed(chain, custom.serializer)

\* ---------------------------------------------------------------- C23
\* C23: the keys of field_info.relations are the names of the forward and of
\* the reverse relations together, and a name that is in both maps stands
\* for the forward relation's descriptor.
C23_RelationsMerge ==
    field_info # Null =>
        /\ Range(Keys(field_info.relations))
               = Range(Keys(field_info.forward_relations))
                 \cup Range(Keys(field_info.reverse_relations))
        /\ \A n \in Range(Keys(field_info.forward_relations)) :
               HasKey(field_info.reverse_relations, n) =>
                   /\ DictGet(field_info.relations, n)
                          = DictGet(field_info.forward_relations, n)
                   /\ ~DictGet(field_info.relations, n).reverse

\* the original statement of C23 with the descriptors exchanged: a name that
\* is in both maps stands for the reverse relation's descriptor, the keys
\* being the names of both maps together.
C23_ReverseWinsMerge ==
    field_info # Null =>
        /\ Range(Keys(field_info.relations))
               = Range(Keys(field_info.forward_relations))
                 \cup Range(Keys(field_info.reverse_relations))
        /\ \A n \in Range(Keys(field_info.relations)) :
               DictGet(field_info.relations, n) =
                   IF HasKey(field_info.reverse_relations, n)
                   THEN DictGet(field_info.reverse_relations, n)
                   ELSE DictGet(field_info.forward_relations, n)

\* a foreign key `a` and a reverse accessor `a` on one model
C23_Witness ==
    /\ field_info # Null
    /\ HasKey(field_info.forward_relations, "a")
    /\ HasKey(field_info.reverse_relations, "a")
    /\ HasKey(field_info.forward_relations, "b")
    /\ DictGet(field_info.relations, "a").reverse
    /\ ~DictGet(field_info.relations, "b").reverse

\* ---------------------------------------------------------------- C24
RECURSIVE CountersStep(_, _)
\* In the tree r of the fields of the class k: every nested relation
\* serializer comes from a relation depth above 0 and has one less, every
\* nested embedded serializer comes from an embed depth above 0 and has
\* one less, no generated class has a negative counter; likewise below.
CountersStep(k, r) ==
    \A i \in 1..Len(r.val) :
        LET field == r.val[i].field IN
        field.nested # Null =>
            /\ field.cls = "NestedRelationSerializer" =>
                   /\ RelDepth(k) > 0
                   /\ field.nested.meta.depth = IntV(RelDepth(k) - 1)
            /\ field.cls = "EmbeddedSerializer" =>
                   /\ EmbDepth(k) > 0
                   /\ field.nested.meta.embed_depth = IntV(EmbDepth(k) - 1)
            /\ RelDepth(field.nested) >= 0
            /\ EmbDepth(field.nested) >= 0
            /\ CountersStep(field.nested, field.sub)

\* C24: a nested relation serializer built from a parent with relation
\* depth d > 0 has relation depth d - 1, a nested embedded serializer built
\* from a parent with embed depth e > 0 has embed depth e - 1, none is built
\* from a counter equal to 0 and no generated serializer has a negative
\* counter.
C24_DepthCountersStepByOne ==
    resolved # Null => CountersStep(klass, resolved)

\* a root with depth 2 and embed_depth 2 over a model that relates to and
\* embeds itself: the serializers below have depth 1, then 0, and embed
\* depth 1, then 0
C24_Witness ==
    /\ resolved # Null
    /\ klass.meta.depth = IntV(2)
    /\ klass.meta.embed_depth = IntV(2)
    /\ \E i, j \in 1..Len(resolved.val) :
        /\ resolved.val[i].field.cls = "NestedRelationSerializer"
        /\ resolved.val[i].field.nested.meta.depth = IntV(1)
        /\ \E m \in 1..Len(resolved.val[i].field.sub.val) :
            /\ resolved.val[i].field.sub.val[m].field.cls = "NestedRelationSerializer"
            /\ resolved.val[i].field.sub.val[m].field.nested.meta.depth = IntV(0)
        /\ resolved.val[j].field.cls = "EmbeddedSerializer"
        /\ resolved.val[j].field.nested.meta.embed_depth = IntV(1)
        /\ \E m \in 1..Len(resolved.val[j].field.sub.val) :
            /\ resolved.val[j].field.sub.val[m].field.cls = "EmbeddedSerializer"
            /\ resolved.val[j].field.sub.val[m].field.nested.meta.embed_depth = IntV(0)

\* ---------------------------------------------------------------- C25
\* the largest number of the set S of naturals, 0 when it is empty
Largest(S) == IF S = {} THEN 0 ELSE CHOOSE n \in S : \A m \in S : m <= n

RECURSIVE EmbedsOnPath(_)
\* the most nested embedded serializers on one path of the tree r
EmbedsOnPath(r) ==
    Largest({(IF r.val[i].field.cls = "EmbeddedSerializer" THEN 1 ELSE 0)
                 + EmbedsOnPath(r.val[i].field.sub) :
             i \in {j \in 1..Len(r.val) : r.val[j].field.nested # Null}})

\* C25: no path of generated serializers below a root with embed depth n
\* holds more than n nested embedded serializers, the paths through nested
\* relation serializers included; with embed depth 0 every embedded field
\* of the tree is a terminal field.
C25_EmbedDepthCeiling ==
    (resolved # Null /\ resolved.err.type = "none") =>
        EmbedsOnPath(resolved) <= EmbDepth(klass)

\* ---------------------------------------------------------------- C27
RECURSIVE PathLength(_)
\* the number of generated serializers on the longest path of the tree r
PathLength(r) ==
    Largest({1 + PathLength(r.val[i].field.sub) :
             i \in {j \in 1..Len(r.val) : r.val[j].field.nested # Null}})

RECURSIVE HasNestedRelation(_)
\* the tree r holds a nested relation serializer
HasNestedRelation(r) ==
    \E i \in 1..Len(r.val) :
        /\ r.val[i].field.nested # Null
        /\ \/ r.val[i].field.cls = "NestedRelationSerializer"
           \/ HasNestedRelation(r.val[i].field.sub)

RECURSIVE NoRelationBelowEmbedded(_)
\* no nested relation serializer below a nested embedded serializer of r
NoRelationBelowEmbedded(r) ==
    \A i \in 1..Len(r.val) :
        r.val[i].field.nested # Null =>
            /\ r.val[i].field.cls = "EmbeddedSerializer" =>
                   ~HasNestedRelation(r.val[i].field.sub)
            /\ NoRelationBelowEmbedded(r.val[i].field.sub)

\* C27: for every graph of models, cyclic ones included, the field tree of
\* a root with relation depth d and embed depth e is built (is finite), no
\* path of generated serializers is longer than d + max(e, 5), and no
\* nested relation serializer lies below a nested embedded serializer.
C27_FieldTreeBounded ==
    (resolved # Null /\ resolved.err.type = "none") =>
        /\ PathLength(resolved)
               <= RelDepth(klass) + (IF EmbDepth(klass) > DefaultEmbedDepth
                                     THEN EmbDepth(klass) ELSE DefaultEmbedDepth)
        /\ NoRelationBelowEmbedded(resolved)

\* model 1 relates to itself and embeds itself: below a root with depth 2
\* and embed_depth 0 the longest path has 2 nested relation serializers and
\* 5 nested embedded serializers
C27_Witness ==
    /\ resolved # Null
    /\ resolved.err.type = "none"
    /\ klass.meta.depth = IntV(2)
    /\ klass.meta.embed_depth = IntV(0)
    /\ \E i \in 1..Len(chain[1].fields) :
           chain[1].fields[i].name = "fk" /\ chain[1].fields[i].related_model = RefV(1)
    /\ \E i \in 1..Len(chain[1].fields) :
           chain[1].fields[i].name = "embed" /\ chain[1].fields[i].model_container = RefV(1)
    /\ PathLength(resolved) = 2 + DefaultEmbedDepth

\* ---------------------------------------------------------------- C26
\* the field of the key is neither an embedded sub-serializer nor a list
\* of embedded sub-serializers
IsCopiedKey(s, key) ==
    /\ key \in FieldNames(s)
    /\ ~IsEmbeddedSerializer(SerField(s, key))
    /\ ~(/\ IsListSerializer(SerField(s, key))
         /\ SerClass(SerField(s, key).child) = "EmbeddedModelSerializer")

\* C26: the turn of build_instance_data's loop for a key whose field is
\* neither an embedded sub-serializer nor a list of them raises nothing and
\* puts under the key the validated value it was given, also for a
\* terminal EmbeddedModelField or ArrayModelField whose validated value is a
\* model instance or a list of instances.
C26_PlainValuesCopied ==
    last.method # "none" =>
        \A key \in DOMAIN last.vd.m :
            IsCopiedKey(ser, key) =>
                LET r == BuildKey(ser, key, last.vd.m[key],
                                  [data |-> MapV(EmptyMap), inst |-> last.before,
                                   log |-> <<>>, err |-> NoErr])
                IN  /\ r.err.type = "none"
                    /\ r.data = MapV(key :> last.vd.m[key])

\* ---------------------------------------------------------------- C28
\* C28: what build_instance_data returns is a mapping with exactly the keys
\* of the validated data, also when a key is not the name of a field of the
\* serializer.
C28_KeySetPreserved ==
    last.method # "none" =>
        LET r == build_instance_data(ser, last.vd, last.before) IN
        r.err.type = "none" =>
            /\ r.data.t = "map"
            /\ DOMAIN r.data.m = DOMAIN last.vd.m

\* ---------------------------------------------------------------- C29
\* C29: when update raises, the instance and the embedded objects it holds
\* have the attribute values they had before the call, and nothing was
\* written to the store.
C29_FailedUpdateChangesNothing ==
    (last.method = "update" /\ last.err.type # "none") =>
        /\ instance = last.before
        /\ ~Wrote(last.log)
        /\ store = last.before

\* ---------------------------------------------------------------- C30
\* the keywords the claim names
NestedEmbedKeywords ==
    {"many", "label", "help_text", "read_only", "required", "allow_null", "validators"}

\* C30: get_nested_embed_kwargs returns only keywords the nested serializer
\* accepts, many = True exactly for an array field, the model field's help
\* text under help_text and, for a field that is not editable, read_only =
\* True without required, allow_null or validators; the nested serializer
\* can be constructed from them.
C30_NestedEmbedKwargsWellFormed ==
    (kwargs # Null /\ kwargs.val # Null) =>
        LET kw == kwargs.val
            model_field == kwargs.embed_info.model_field
        IN  /\ DOMAIN kw \subseteq NestedEmbedKeywords
            /\ ("many" \in DOMAIN kw) = kwargs.embed_info.is_array
            /\ "many" \in DOMAIN kw => kw["many"] = TRUE
            /\ model_field.help_text # "" =>
                   "help_text" \in DOMAIN kw /\ kw["help_text"] = model_field.help_text
            /\ ~model_field.editable =>
                   /\ "read_only" \in DOMAIN kw /\ kw["read_only"] = TRUE
                   /\ DOMAIN kw \cap {"required", "allow_null", "validators"} = {}
            /\ kwargs.built

====
